---- MODULE Spec2Model ----
(***************************************************************************)
(* The memory-service transport client of opencode-graphiti                *)
(* (src/src/services/graphiti-client.ts, class GraphitiClient): lazy       *)
(* session handshake, request ids, wire headers, error classification.     *)
(*                                                                         *)
(* Execution model.  The runtime is single-threaded: code runs to          *)
(* completion between suspension points.  A facade invocation suspends at  *)
(* `await fetchWithTimeout(..)` (the fetch / timer race) and at            *)
(* `await response.text()` (the body read).  The awaits of already settled *)
(* promises (`await this.ensureSession()` when a token is held, the        *)
(* returns through the async call chain) are microtask hops that run in    *)
(* FIFO order before any network or timer event is delivered, so each      *)
(* action below is one event together with the code that runs until the    *)
(* invocation suspends on the network again or returns its result.         *)
(***************************************************************************)
EXTENDS Integers, Sequences, FiniteSets, TLC

\* Number of facade invocations made on the client instance.
MaxOps == 2

Ops == 1..MaxOps

(***************************************************************************)
(* JavaScript values, tagged by type.                                      *)
(***************************************************************************)
Undefined == [type |-> "undefined"]
Null == [type |-> "null"]
Str(s) == [type |-> "string", v |-> s]
Bool(b) == [type |-> "boolean", v |-> b]
Obj(f) == [type |-> "object", fields |-> f]
Arr(s) == [type |-> "array", items |-> s]
Num(n) == [type |-> "number", v |-> n]

\* ToBoolean of the values used here (`if (x)`, `!x`, `x && ..`, `x || y`).
Truthy(v) ==
    CASE v.type = "undefined" -> FALSE
      [] v.type = "null" -> FALSE
      [] v.type = "string" -> v.v # ""
      [] v.type = "boolean" -> v.v
      [] v.type = "number" -> v.v # 0
      [] OTHER -> TRUE

\* Property read `v.key` / optional read `v?.key` on an object or undefined.
Get(v, key) ==
    IF v.type = "object" /\ key \in DOMAIN v.fields THEN v.fields[key] ELSE Undefined

\* `arr?.[0]`
First(v) ==
    IF v.type = "array" /\ Len(v.items) > 0 THEN v.items[1] ELSE Undefined

\* The `in` operator as used by callTool (guarded by typeof === 'object').
HasKey(v, key) == v.type = "object" /\ key \in DOMAIN v.fields

(***************************************************************************)
(* Operation results (GraphitiResult<T>).  An error message is the         *)
(* sequence of the parts its template literal concatenates.                *)
(***************************************************************************)
Success(data) == [success |-> TRUE, data |-> data]

Failure(msg, unreachable) ==
    [success |-> FALSE, error |-> msg, isUnreachable |-> unreachable]

Contains(msg, part) == \E i \in DOMAIN msg : msg[i] = part

(***************************************************************************)
(* JSON.parse, tabulated over the JSON texts the modelled server and tools *)
(* produce; any other text is malformed and makes JSON.parse throw.        *)
(***************************************************************************)
RpcErrorMessage == "Bad Request: Missing session ID"

ToolErrorText == "Invalid query parameter"

JsonInit == "{result:{protocolVersion,capabilities,serverInfo}}"
JsonRpcError == "{error:{code:-32600,message}}"
JsonNoResult == "{jsonrpc,id}"
JsonToolOk == "{result:{structuredContent:{status:ok},isError:false}}"
JsonToolWrapped == "{result:{structuredContent:{result:{message}},isError:false}}"
JsonToolError == "{result:{content:[{text:{error}}],structuredContent:{error},isError:true}}"
JsonToolErrorText == "{result:{content:[{text:plain}],isError:true}}"
JsonToolErrorBare == "{result:{isError:true}}"
JsonErrorObject == "{error:Invalid query parameter}"
JsonMalformed == "{not json"
PlainText == "search backend rejected the query"
JsonErrorEmpty == "{error:}"
JsonNoErrorField == "{detail:unavailable}"
TextErrorMessage == "Episode not found"
JsonTextError == "{error:Episode not found}"

JsonTable ==
    { [text |-> JsonInit,
       value |-> Obj([result |-> Obj([protocolVersion |-> Str("2024-11-05")])])],
      [text |-> JsonRpcError,
       value |-> Obj([error |-> Obj([code |-> Str("-32600"),
                                     message |-> Str(RpcErrorMessage)])])],
      [text |-> JsonNoResult,
       value |-> Obj([jsonrpc |-> Str("2.0")])],
      [text |-> JsonToolOk,
       value |-> Obj([result |-> Obj([structuredContent |-> Obj([status |-> Str("ok")]),
                                      isError |-> Bool(FALSE)])])],
      [text |-> JsonToolWrapped,
       value |-> Obj([result |->
                        Obj([structuredContent |->
                                Obj([result |-> Obj([message |-> Str("queued")])]),
                             isError |-> Bool(FALSE)])])],
      [text |-> JsonToolError,
       value |-> Obj([result |->
                        Obj([content |-> Arr(<<Obj([type |-> Str("text"),
                                                    text |-> Str(JsonErrorObject)])>>),
                             structuredContent |-> Obj([error |-> Str(ToolErrorText)]),
                             isError |-> Bool(TRUE)])])],
      [text |-> JsonToolErrorText,
       value |-> Obj([result |->
                        Obj([content |-> Arr(<<Obj([type |-> Str("text"),
                                                    text |-> Str(PlainText)])>>),
                             isError |-> Bool(TRUE)])])],
      [text |-> JsonToolErrorBare,
       value |-> Obj([result |-> Obj([isError |-> Bool(TRUE)])])],
      [text |-> JsonErrorObject,
       value |-> Obj([error |-> Str(ToolErrorText)])],
      [text |-> JsonErrorEmpty,
       value |-> Obj([error |-> Str("")])],
      [text |-> JsonNoErrorField,
       value |-> Obj([detail |-> Str("unavailable")])],
      [text |-> JsonTextError,
       value |-> Obj([error |-> Str(TextErrorMessage)])] }

\* [threw, value]: the outcome of JSON.parse(text).
JSONParse(text) ==
    IF \E e \in JsonTable : e.text = text
    THEN [threw |-> FALSE, value |-> (CHOOSE e \in JsonTable : e.text = text).value]
    ELSE [threw |-> TRUE, value |-> Undefined]

(***************************************************************************)
(* A response body is the sequence of its lines (text.split("\n")); a line *)
(* is the text prefix \o rest, where prefix is what startsWith("data: ")   *)
(* looks at and rest is what substring(6) keeps of a data line.            *)
(***************************************************************************)
Line(prefix, rest) == [prefix |-> prefix, rest |-> rest]

DataPrefix == "data: "

\* createSSEResponse: `event: message\ndata: <json>\n\n`
SSEBody(json) ==
    << Line("event: ", "message"), Line(DataPrefix, json), Line("", ""), Line("", "") >>

NoDataLineMessage == "Invalid SSE format: no data line"

SyntaxErrorMessage == "SyntaxError: JSON Parse error"

\* Mutant: the last data line is the one decoded.
parseSSEResponseLastDataLine(lines) ==
    LET dataLines == { i \in DOMAIN lines : lines[i].prefix = DataPrefix } IN
    IF dataLines = {}
    THEN [threw |-> TRUE, msg |-> <<NoDataLineMessage>>, value |-> Undefined]
    ELSE LET last == CHOOSE i \in dataLines : \A j \in dataLines : i >= j
             parsed == JSONParse(lines[last].rest)
         IN  IF parsed.threw
             THEN [threw |-> TRUE, msg |-> <<SyntaxErrorMessage>>, value |-> Undefined]
             ELSE [threw |-> FALSE, msg |-> <<>>, value |-> parsed.value]

\* [threw, msg, value]: the first line starting with "data: ", parsed as JSON.
parseSSEResponse(lines) ==
    LET dataLines == { i \in DOMAIN lines : lines[i].prefix = DataPrefix } IN
    IF dataLines = {}
    THEN [threw |-> TRUE, msg |-> <<NoDataLineMessage>>, value |-> Undefined]
    ELSE LET first == CHOOSE i \in dataLines : \A j \in dataLines : i <= j
             parsed == JSONParse(lines[first].rest)
         IN  IF parsed.threw
             THEN [threw |-> TRUE, msg |-> <<SyntaxErrorMessage>>, value |-> Undefined]
             ELSE [threw |-> FALSE, msg |-> <<>>, value |-> parsed.value]

(***************************************************************************)
(* The pure steps of GraphitiClient.                                       *)
(***************************************************************************)
SessionHeader == "mcp-session-id"

BaseHeaders ==
    ("Content-Type" :> "application/json")
        @@ ("Accept" :> "application/json, text/event-stream")

\* Mutant: the session header is left out.
RequestHeadersWithoutSession(sid) == BaseHeaders

\* sendRequest: the request headers, given the token held when it is called.
RequestHeaders(sid) ==
    IF Truthy(sid) THEN (SessionHeader :> sid.v) @@ BaseHeaders ELSE BaseHeaders

\* Mutant: the counter is read without being advanced.
NextRequestIdStuck(rid) == rid

\* sendRequest: `id: ++this.requestId`.
NextRequestId(rid) == rid + 1

\* Mutant: every handshake response overwrites the token.
StoreSessionIdOverwriting(method, sid, headerToken) ==
    IF method = "initialize" /\ Truthy(headerToken) THEN headerToken ELSE sid

\* sendRequest: the token held after an HTTP-ok, decodable response to `method`
\* whose mcp-session-id response header is `headerToken` (null when absent).
StoreSessionId(method, sid, headerToken) ==
    IF method = "initialize" /\ ~Truthy(sid) /\ Truthy(headerToken)
    THEN headerToken
    ELSE sid

\* Mutant: the Response of an abandoned fetch is still processed.
AfterAbandonedResponseStores(method, sid, headerToken) ==
    StoreSessionId(method, sid, headerToken)

\* fetchWithTimeout: this.sessionId once the fetch that lost Promise.race to the
\* timer resolves; the race has settled, so the Response reaches no code.
AfterAbandonedResponse(method, sid, headerToken) == sid

\* Response.ok
Ok(status) == status >= 200 /\ status <= 299

\* sendRequest: `HTTP error: ${response.status}`
HttpErrorMessage(status) == << "HTTP error: ", ToString(status) >>

\* Mutant: the timer rejects with a message that names no timeout.
TimeoutMessageGeneric == "Request failed"

TimeoutMessage == "Request timeout"

\* Mutant: the catch block lets the exception escape to the caller.
CatchErrorRethrow(msg) == [thrown |-> msg]

\* Mutant: an exception classified as an application failure.
CatchErrorAsApplication(msg) == Failure(msg, FALSE)

\* The catch blocks of ensureSession and callTool.
CatchError(msg) == Failure(msg, TRUE)

\* Mutant: the handshake is sent whether or not a token is held.
NeedsHandshakeAlways(sid) == TRUE

\* ensureSession: TRUE when the handshake has to be sent.
NeedsHandshake(sid) == ~Truthy(sid)

\* Mutant: ensureSession does not look at the decoded response's error.
EnsureSessionResultIgnoringError(response) == << >>

\* ensureSession, after sendRequest("initialize") returned `response`:
\* <<>> for success, <<failure>> for the failure result it returns.
EnsureSessionResult(response) ==
    IF Truthy(Get(response, "error"))
    THEN << Failure(<< Get(Get(response, "error"), "message").v >>, TRUE) >>
    ELSE << >>

\* Mutant: the text of the first content block is preferred to the structured
\* error field.
ToolErrorMessageTextFirst(result) ==
    LET errorContent == Get(Get(result, "structuredContent"), "error")
        textContent == Get(First(Get(result, "content")), "text")
    IN  IF Truthy(textContent) THEN << textContent.v >>
        ELSE IF Truthy(errorContent) THEN << errorContent.v >>
        ELSE << "Tool execution failed" >>

\* callTool: the message of a tool-level error.
ToolErrorMessage(result) ==
    LET errorContent == Get(Get(result, "structuredContent"), "error")
        textContent == Get(First(Get(result, "content")), "text")
    IN  IF Truthy(errorContent) THEN << errorContent.v >>
        ELSE IF Truthy(textContent)
        THEN LET parsed == JSONParse(textContent.v) IN
             IF parsed.threw THEN << textContent.v >>
             ELSE IF Truthy(Get(parsed.value, "error"))
                  THEN << Get(parsed.value, "error").v >>
                  ELSE << textContent.v >>
        ELSE << "Tool execution failed" >>

\* callTool: the server wraps the payload in { result: ... }; unwrap it.
Unwrap(structuredContent) ==
    IF Truthy(structuredContent) /\ HasKey(structuredContent, "result")
    THEN Get(structuredContent, "result")
    ELSE structuredContent

\* Mutant: a response without a result is a success without data.
CallToolResultMissingResultSucceeds(response) ==
    IF Truthy(Get(response, "error"))
    THEN Failure(<< Get(Get(response, "error"), "message").v >>, TRUE)
    ELSE LET result == Get(response, "result") IN
         IF ~Truthy(result)
         THEN Success(Undefined)
         ELSE IF Truthy(Get(result, "isError"))
              THEN Failure(ToolErrorMessage(result), FALSE)
              ELSE Success(Unwrap(Get(result, "structuredContent")))

\* Mutant: a tool-level error classified as a connectivity failure.
CallToolResultToolErrorUnreachable(response) ==
    IF Truthy(Get(response, "error"))
    THEN Failure(<< Get(Get(response, "error"), "message").v >>, TRUE)
    ELSE LET result == Get(response, "result") IN
         IF ~Truthy(result)
         THEN Failure(<< "No result in response" >>, TRUE)
         ELSE IF Truthy(Get(result, "isError"))
              THEN Failure(ToolErrorMessage(result), TRUE)
              ELSE Success(Unwrap(Get(result, "structuredContent")))

\* callTool, after sendRequest("tools/call") returned `response`.
CallToolResult(response) ==
    IF Truthy(Get(response, "error"))
    THEN Failure(<< Get(Get(response, "error"), "message").v >>, TRUE)
    ELSE LET result == Get(response, "result") IN
         IF ~Truthy(result)
         THEN Failure(<< "No result in response" >>, TRUE)
         ELSE IF Truthy(Get(result, "isError"))
              THEN Failure(ToolErrorMessage(result), FALSE)
              ELSE Success(Unwrap(Get(result, "structuredContent")))

(***************************************************************************)
(* What the network and the server may do to one request.  `kind` and      *)
(* `class` name the situation; the client code reads the other fields.     *)
(***************************************************************************)
Tokens == { Str("sess-A"), Str("sess-B") }

FetchRejections ==
    { [kind |-> "reject", msg |-> "ECONNREFUSED", status |-> 0, token |-> Null] }

FetchTimeout == [kind |-> "timeout", msg |-> TimeoutMessage, status |-> 0, token |-> Null]

\* The responses to a handshake; Response.headers.get("mcp-session-id") is null
\* when the header is absent.
HandshakeResponses ==
    { [kind |-> "response", msg |-> "", status |-> 200, token |-> t] :
          t \in Tokens \cup {Null} }
    \cup { [kind |-> "response", msg |-> "", status |-> 500, token |-> Null] }

\* The responses to a tools/call (a server may repeat a session header on them).
ToolResponses ==
    { [kind |-> "response", msg |-> "", status |-> 200, token |-> t] :
          t \in {Null, Str("sess-B")} }
    \cup { [kind |-> "response", msg |-> "", status |-> 500, token |-> Null] }

\* The Response a server still sends to a request the client gave up on.
LateResponses ==
    { [kind |-> "response", msg |-> "", status |-> 200, token |-> Str("sess-B")] }

NoFetch == [kind |-> "none", msg |-> "", status |-> 0, token |-> Null]

SessionHeld == [kind |-> "held", msg |-> "", status |-> 0, token |-> Null]

\* A fetch that lost the race against its timer and is still on the network.
Abandoned == [kind |-> "abandoned", msg |-> "", status |-> 0, token |-> Null]

BodyRejections == { [class |-> "reject", msg |-> "terminated", lines |-> << >>] }

NoDataBody == << Line("event: ", "message"), Line("", "") >>

\* The bodies a handshake is answered with.
HandshakeBodies ==
    { [class |-> "nodata", msg |-> "", lines |-> NoDataBody],
      [class |-> "rpcerror", msg |-> RpcErrorMessage, lines |-> SSEBody(JsonRpcError)],
      [class |-> "ok", msg |-> "", lines |-> SSEBody(JsonInit)] }

\* The bodies a tools/call is answered with.
ToolBodies ==
    { [class |-> "badjson", msg |-> "", lines |-> SSEBody(JsonMalformed)],
      [class |-> "rpcerror", msg |-> RpcErrorMessage, lines |-> SSEBody(JsonRpcError)],
      [class |-> "noresult", msg |-> "", lines |-> SSEBody(JsonNoResult)],
      [class |-> "toolerror", msg |-> ToolErrorText, lines |-> SSEBody(JsonToolError)],
      [class |-> "ok", msg |-> "", lines |-> SSEBody(JsonToolWrapped)] }

\* What is remembered of a body: its situation and the server's message.
Tag(b) == [class |-> b.class, msg |-> b.msg]

NoBody == [class |-> "none", msg |-> ""]

(***************************************************************************)
(* State.                                                                  *)
(***************************************************************************)
\* The GraphitiClient instances that exist; the claims about one client are
\* about "A".
Instances == {"A", "B"}

\* Mutant: the fields are static, one storage for all instances.
SlotStatic(this) == "A"

\* Where the private fields of instance `this` are stored: instance fields,
\* one storage per instance.
Slot(this) == this

VARIABLES
    sessionIdOf, \* this.sessionId of each instance: Null or Str(token)
    requestIdOf, \* this.requestId of each instance
    on,          \* the instance each invocation is made on
    pc,          \* where each facade invocation is suspended
    resp,        \* the mcp-session-id header of the Response whose body is being read
    result,      \* the results each invocation has returned (a sequence)
    sent,        \* the HTTP requests handed to fetch, in order
    nextOp,      \* the next invocation the caller makes
    overlapped,  \* some invocation was made while another was in flight
    gotInit,     \* what the network did to each invocation's handshake
    gotCall,     \* what the network did to each invocation's tools/call
    late,        \* the fetch each invocation abandoned to its timer, and how it ended
    input,       \* the argument a function of the client is applied to on its own
    output       \* what that function returned: << >> until it is applied

clientVars == << sessionIdOf, requestIdOf, on, pc, resp, result, sent, nextOp, overlapped,
                 gotInit, gotCall, late >>

VARIABLES
    hashCache,   \* _hashCache: for each directory path << >> or << fingerprint >>
    gitOf,       \* what git answers in each directory: remote and prefix lookups
    sha,         \* the SHA-256 digests computed so far: a set of [identity, digest]
    resolved,    \* for each directory, the lookups and the identity it was hashed from
    lookups,     \* how often the remote lookup ran for each directory
    firstNs,     \* the first namespace returned for each directory
    ret          \* the last return of getProjectNamespace

nsVars == << hashCache, gitOf, sha, resolved, lookups, firstNs, ret >>

VARIABLES
    configState,      \* _configState: << >> for null, or << state >>
    env,              \* environment variables and configuration files
    cfgRet,           \* the last return of initConfig / getConfig / resetConfig
    injectedSessions, \* the plugin's injectedSessions
    chat,             \* per host session: the context fetches awaiting their results
    fetched,          \* per host session: how many messages made the plugin call the client
    message,          \* the last chat.message handled
    tool,             \* the last execution of the graphiti tool
    written           \* the addMemory calls made: effective scope and group id

appVars == << configState, env, cfgRet, injectedSessions, chat, fetched, message, tool, written >>

vars == << sessionIdOf, requestIdOf, on, pc, resp, result, sent, nextOp, overlapped,
           gotInit, gotCall, late, input, output, nsVars, appVars >>

\* The absolute directory paths getProjectNamespace is called with.
Dirs == { << "/", "w", "/", "a" >>, << "/", "w", "/", "b" >> }

\* execSync: it threw, or it returned stdout.
Threw == [threw |-> TRUE, stdout |-> << >>]
Stdout(s) == [threw |-> FALSE, stdout |-> s]

\* A directory outside any repository: both git commands fail.
NotARepository == [remote |-> Threw, prefix |-> Threw]

NoReturn == [dir |-> << >>, namespace |-> << >>, cached |-> FALSE, git |-> NotARepository]

\* The resolver before its first call.
ResolverStart ==
    /\ hashCache = [d \in Dirs |-> << >>]
    /\ sha = {}
    /\ resolved = [d \in Dirs |-> << >>]
    /\ lookups = [d \in Dirs |-> 0]
    /\ firstNs = [d \in Dirs |-> << >>]
    /\ ret = NoReturn

\* An optional string is << >> (undefined) or << s >>; it is truthy when it is
\* a non-empty string.
Present(o) == o # << >> /\ o[1] # << >>

\* No environment variable is set and no configuration file exists.
NoEnvironment ==
    [url |-> << >>, groupId |-> << >>, userId |-> << >>, profileGroupId |-> << >>,
     localGroupId |-> << >>, injectProfile |-> << >>]

\* A return of the configuration module: initConfig returns a state, getConfig
\* a config or an exception.
Returned(fn, dir, memoized, threw, state, config) ==
    [fn |-> fn, dir |-> dir, memoized |-> memoized, threw |-> threw, state |-> state,
     config |-> config]

NoCall == Returned("none", << >>, FALSE, FALSE, << >>, << >>)

\* The configuration module before its first call.
ConfigStart ==
    /\ configState = << >>
    /\ cfgRet = NoCall

\* The host sessions whose messages the plugin sees.
Sessions == { "ses_1", "ses_2" }

NoMessage == [session |-> "", text |-> << >>, nudged |-> FALSE, calls |-> << >>]

NoTool == [phase |-> "none", args |-> << >>, calls |-> << >>, results |-> << >>, reply |-> << >>]

\* The plugin before its first hook call.
PluginStart ==
    /\ injectedSessions = {}
    /\ chat = [s \in Sessions |-> << >>]
    /\ fetched = [s \in Sessions |-> [texts |-> 0, rounds |-> 0, injections |-> 0]]
    /\ message = NoMessage
    /\ tool = NoTool
    /\ written = {}

AppStart == ConfigStart /\ PluginStart /\ env = NoEnvironment

\* this.sessionId and this.requestId of instance "A".
sessionId == sessionIdOf[Slot("A")]

requestId == requestIdOf[Slot("A")]

NoOutcome == [fetch |-> NoFetch, body |-> NoBody]

\* No function is applied on its own while the client runs.
NoInput == [fn |-> "none"]

Init ==
    /\ input = NoInput
    /\ output = << >>
    /\ ResolverStart
    /\ gitOf = [d \in Dirs |-> NotARepository]
    /\ AppStart
    /\ sessionIdOf = [c \in Instances |-> Null]
    /\ requestIdOf = [c \in Instances |-> 0]
    /\ on = [p \in Ops |-> "A"]
    /\ pc = [p \in Ops |-> "idle"]
    /\ resp = [p \in Ops |-> Null]
    /\ result = [p \in Ops |-> << >>]
    /\ sent = << >>
    /\ nextOp = 1
    /\ overlapped = FALSE
    /\ gotInit = [p \in Ops |-> NoOutcome]
    /\ gotCall = [p \in Ops |-> NoOutcome]
    /\ late = [p \in Ops |-> NoFetch]

InFlight(p) == pc[p] \notin {"idle", "done"}

Method(p) == IF pc[p] \in {"initFetch", "initBody"} THEN "initialize" ELSE "tools/call"

\* sendRequest up to its fetch call: the request handed to fetch by invocation p
\* when the token held is sid and the counter is rid (held: the token at that moment).
Request(p, method, sid, rid) ==
    [op |-> p, method |-> method, id |-> NextRequestId(rid),
     headers |-> RequestHeaders(sid), held |-> sid]

\* Mutant: a request is sent again right after it was sent.
SendTwice(this, p, method, sid) ==
    /\ requestIdOf' = [requestIdOf EXCEPT ![Slot(this)] = NextRequestId(NextRequestId(@))]
    /\ sent' = Append(Append(sent, Request(p, method, sid, requestIdOf[Slot(this)])),
                      Request(p, method, sid, NextRequestId(requestIdOf[Slot(this)])))

\* this.requestId after sendRequest's `++this.requestId`.
Send(this, p, method, sid) ==
    /\ requestIdOf' = [requestIdOf EXCEPT ![Slot(this)] = NextRequestId(@)]
    /\ sent' = Append(sent, Request(p, method, sid, requestIdOf[Slot(this)]))

\* An invocation returns r.
Return(p, r) ==
    /\ result' = [result EXCEPT ![p] = Append(@, r)]
    /\ pc' = [pc EXCEPT ![p] = "done"]

\* What is remembered of a Response: all of it for a handshake, the status for
\* a tools/call (the client reads no header of a tools/call response).
Seen(p, o) == IF Method(p) = "initialize" THEN o ELSE [o EXCEPT !.token = Null]

\* Record what the network did to the request p is waiting on.
Record(p, field, o) ==
    IF Method(p) = "initialize"
    THEN /\ gotInit' = [gotInit EXCEPT ![p][field] = o]
         /\ UNCHANGED gotCall
    ELSE /\ gotCall' = [gotCall EXCEPT ![p][field] = o]
         /\ UNCHANGED gotInit

(***************************************************************************)
(* Actions.                                                                *)
(***************************************************************************)
\* The caller invokes a facade method: callTool runs ensureSession, which either
\* returns at once (token held; callTool then sends tools/call) or sends the
\* handshake.
Invoke(this) ==
    /\ nextOp \in Ops
    /\ LET p == nextOp IN
         /\ nextOp' = nextOp + 1
         /\ on' = [on EXCEPT ![p] = this]
         /\ overlapped' = (overlapped \/ \E q \in Ops : InFlight(q))
         /\ IF NeedsHandshake(sessionIdOf[Slot(this)])
            THEN /\ Send(this, p, "initialize", sessionIdOf[Slot(this)])
                 /\ pc' = [pc EXCEPT ![p] = "initFetch"]
                 /\ UNCHANGED gotInit
            ELSE /\ Send(this, p, "tools/call", sessionIdOf[Slot(this)])
                 /\ pc' = [pc EXCEPT ![p] = "callFetch"]
                 /\ gotInit' = [gotInit EXCEPT ![p].fetch = SessionHeld]
    /\ UNCHANGED << sessionIdOf, resp, result, gotCall, late, input, output, nsVars, appVars >>

\* fetch rejects before a response is obtained (connection refused, DNS, ...).
FetchRejects(p) ==
    /\ pc[p] \in {"initFetch", "callFetch"}
    /\ \E o \in FetchRejections :
         /\ Return(p, CatchError(<< o.msg >>))
         /\ Record(p, "fetch", o)
    /\ UNCHANGED << sessionIdOf, requestIdOf, on, resp, sent, nextOp, overlapped, late, input, output, nsVars, appVars >>

\* fetchWithTimeout: the timer wins the race.
TimerFires(p) ==
    /\ pc[p] \in {"initFetch", "callFetch"}
    /\ Return(p, CatchError(<< FetchTimeout.msg >>))
    /\ Record(p, "fetch", FetchTimeout)
    /\ late' = [late EXCEPT ![p] = Abandoned]
    /\ UNCHANGED << sessionIdOf, requestIdOf, on, resp, sent, nextOp, overlapped, input, output, nsVars, appVars >>

\* fetch resolves with a Response; sendRequest checks response.ok and starts
\* reading the body.
FetchResponds(p) ==
    /\ pc[p] \in {"initFetch", "callFetch"}
    /\ \E o \in (IF Method(p) = "initialize" THEN HandshakeResponses ELSE ToolResponses) :
         /\ Record(p, "fetch", Seen(p, o))
         /\ IF ~Ok(o.status)
            THEN /\ Return(p, CatchError(HttpErrorMessage(o.status)))
                 /\ UNCHANGED resp
            ELSE /\ pc' = [pc EXCEPT ![p] = IF pc[p] = "initFetch" THEN "initBody"
                                                                     ELSE "callBody"]
                 /\ resp' = [resp EXCEPT ![p] = o.token]
                 /\ UNCHANGED result
    /\ UNCHANGED << sessionIdOf, requestIdOf, on, sent, nextOp, overlapped, late, input, output, nsVars, appVars >>

\* response.text() rejects.
BodyRejects(p) ==
    /\ pc[p] \in {"initBody", "callBody"}
    /\ \E b \in BodyRejections :
         /\ Return(p, CatchError(<< b.msg >>))
         /\ Record(p, "body", Tag(b))
    /\ resp' = [resp EXCEPT ![p] = Null]
    /\ UNCHANGED << sessionIdOf, requestIdOf, on, sent, nextOp, overlapped, late, input, output, nsVars, appVars >>

\* response.text() resolves: sendRequest decodes the body and captures the
\* session header; ensureSession / callTool classify the decoded response, and
\* after a handshake callTool goes on to send tools/call.
BodyArrives(p) ==
    /\ pc[p] \in {"initBody", "callBody"}
    /\ \E b \in (IF Method(p) = "initialize" THEN HandshakeBodies ELSE ToolBodies) :
         LET parsed == parseSSEResponse(b.lines)
             this == on[p]
             sid == StoreSessionId(Method(p), sessionIdOf[Slot(this)], resp[p])
         IN  /\ Record(p, "body", Tag(b))
             /\ IF parsed.threw
                THEN /\ Return(p, CatchError(parsed.msg))
                     /\ UNCHANGED << sessionIdOf, requestIdOf, sent >>
                ELSE /\ sessionIdOf' = [sessionIdOf EXCEPT ![Slot(this)] = sid]
                     /\ IF Method(p) = "initialize"
                        THEN IF EnsureSessionResult(parsed.value) # << >>
                             THEN /\ Return(p, EnsureSessionResult(parsed.value)[1])
                                  /\ UNCHANGED << requestIdOf, sent >>
                             ELSE /\ Send(this, p, "tools/call", sid)
                                  /\ pc' = [pc EXCEPT ![p] = "callFetch"]
                                  /\ UNCHANGED result
                        ELSE /\ Return(p, CallToolResult(parsed.value))
                             /\ UNCHANGED << requestIdOf, sent >>
    /\ resp' = [resp EXCEPT ![p] = Null]
    /\ UNCHANGED << on, nextOp, overlapped, late, input, output, nsVars, appVars >>

\* The fetch of a request that already timed out resolves with a Response:
\* Promise.race has settled with the timer's rejection and sendRequest has
\* thrown, so no code of the client runs on this Response.
LateResponse(p) ==
    /\ late[p] = Abandoned
    /\ \E o \in LateResponses :
         /\ late' = [late EXCEPT ![p] = o]
         /\ sessionIdOf' = [sessionIdOf EXCEPT ![Slot(on[p])] =
                 AfterAbandonedResponse(
                     IF gotInit[p].fetch = FetchTimeout THEN "initialize" ELSE "tools/call",
                     @, o.token)]
    /\ UNCHANGED << requestIdOf, on, pc, resp, result, sent, nextOp, overlapped,
                    gotInit, gotCall, input, output, nsVars, appVars >>

Next ==
    \/ Invoke("A")
    \/ \E p \in Ops : FetchRejects(p)
    \/ \E p \in Ops : TimerFires(p)
    \/ \E p \in Ops : FetchResponds(p)
    \/ \E p \in Ops : BodyRejects(p)
    \/ \E p \in Ops : BodyArrives(p)
    \/ \E p \in Ops : LateResponse(p)

Spec == Init /\ [][Next]_vars

\* The timer of fetchWithTimeout always eventually fires: setTimeout is served by
\* the event loop.  Nothing is assumed of the network and the server.
FairSpec == Init /\ [][Next]_vars /\ \A p \in Ops : WF_vars(TimerFires(p))

\* The caller of two instances uses them in turn.
InstanceOf(p) == IF p % 2 = 1 THEN "A" ELSE "B"

\* Two instances in one program.
TwoNext ==
    \/ Invoke(InstanceOf(nextOp))
    \/ \E p \in Ops : FetchRejects(p)
    \/ \E p \in Ops : TimerFires(p)
    \/ \E p \in Ops : FetchResponds(p)
    \/ \E p \in Ops : BodyRejects(p)
    \/ \E p \in Ops : BodyArrives(p)
    \/ \E p \in Ops : LateResponse(p)

TwoSpec == Init /\ [][TwoNext]_vars

(***************************************************************************)
(* The facade: each method builds the argument map of one server tool and  *)
(* hands it to callTool.  A call is [tool, args].                          *)
(***************************************************************************)
\* `if (params?.camel) args.snake = params.camel`
Opt(params, camel, snake) ==
    IF Truthy(Get(params, camel)) THEN snake :> Get(params, camel) ELSE << >>

getStatus == [tool |-> "get_status", args |-> << >>]

addMemory(params) ==
    [tool |-> "add_memory",
     args |-> ("name" :> Get(params, "name"))
              @@ ("episode_body" :> Get(params, "episodeBody"))
              @@ Opt(params, "groupId", "group_id")
              @@ Opt(params, "source", "source")
              @@ Opt(params, "sourceDescription", "source_description")
              @@ Opt(params, "uuid", "uuid")]

searchNodes(query, params) ==
    [tool |-> "search_nodes",
     args |-> ("query" :> query)
              @@ Opt(params, "groupIds", "group_ids")
              @@ Opt(params, "maxNodes", "max_nodes")
              @@ Opt(params, "entityTypes", "entity_types")]

\* Mutant: the tool name the server does not have.
searchFactsOldToolName(query, params) ==
    [tool |-> "search_facts",
     args |-> ("query" :> query)
              @@ Opt(params, "groupIds", "group_ids")
              @@ Opt(params, "maxFacts", "max_facts")
              @@ Opt(params, "centerNodeUuid", "center_node_uuid")]

searchFacts(query, params) ==
    [tool |-> "search_memory_facts",
     args |-> ("query" :> query)
              @@ Opt(params, "groupIds", "group_ids")
              @@ Opt(params, "maxFacts", "max_facts")
              @@ Opt(params, "centerNodeUuid", "center_node_uuid")]

getEpisodes(params) ==
    [tool |-> "get_episodes",
     args |-> Opt(params, "groupIds", "group_ids")
              @@ Opt(params, "maxEpisodes", "max_episodes")]

deleteEpisode(uuid) == [tool |-> "delete_episode", args |-> ("uuid" :> uuid)]

clearGraph(params) ==
    [tool |-> "clear_graph", args |-> Opt(params, "groupIds", "group_ids")]

\* The call a facade method makes; `first` is its first positional argument
\* (params, query or uuid) and `second` the params after a query.
Facade(method, first, second) ==
    CASE method = "getStatus" -> getStatus
      [] method = "addMemory" -> addMemory(first)
      [] method = "searchNodes" -> searchNodes(first, second)
      [] method = "searchFacts" -> searchFacts(first, second)
      [] method = "getEpisodes" -> getEpisodes(first)
      [] method = "deleteEpisode" -> deleteEpisode(first)
      [] method = "clearGraph" -> clearGraph(first)

(***************************************************************************)
(* The functions of the client on their own: decoding a body, classifying  *)
(* a decoded tools/call response, building a facade call.  `input` is      *)
(* drawn from the sets below and the function it names is applied to it.   *)
(***************************************************************************)
\* Longest response body, in lines.
MaxLines == 3

\* The lines a body is made of; "data:" without the space is not the prefix.
BodyLines ==
    { Line("", ""), Line("event: ", "message"), Line("data:", JsonNoResult),
      Line(DataPrefix, JsonToolOk), Line(DataPrefix, JsonRpcError),
      Line(DataPrefix, JsonMalformed) }

\* text.split("\n") has at least one element.
Bodies == UNION { [1..n -> BodyLines] : n \in 1..MaxLines }

\* The objects whose keys are a subset of DOMAIN values, the value under key k
\* drawn from values[k].
Objects(values) ==
    { Obj(f) : f \in UNION { { g \in [ks -> UNION { values[k] : k \in ks }] :
                                   \A k \in ks : g[k] \in values[k] } :
                             ks \in SUBSET DOMAIN values } }

TextBlock(text) == Obj([type |-> Str("text"), text |-> Str(text)])

\* The `result` of a decoded tools/call response that reports a tool error.
ToolErrorResults ==
    { Obj(f @@ ("isError" :> Bool(TRUE))) :
        f \in { o.fields : o \in Objects(
            [structuredContent |->
                 { Null, Obj(<< >>), Obj([error |-> Str(ToolErrorText)]),
                   Obj([error |-> Str("")]), Obj([detail |-> Str("unavailable")]) },
             content |->
                 { Arr(<< >>) }
                 \cup { Arr(<< TextBlock(t) >>) :
                          t \in { JsonTextError, JsonErrorEmpty, JsonNoErrorField,
                                  JsonMalformed, PlainText, "" } }
                 \cup { Arr(<< TextBlock(PlainText), TextBlock(JsonTextError) >>) }]) } }

\* The `result` of a decoded tools/call response that reports no tool error.
ToolOkResults ==
    { Obj(f) :
        f \in { o.fields : o \in Objects(
            [structuredContent |->
                 { Null, Str("ok"), Arr(<< Str("result") >>), Obj(<< >>),
                   Obj([status |-> Str("ok")]),
                   Obj([result |-> Obj([message |-> Str("queued")])]),
                   Obj([result |-> Null]),
                   Obj([result |-> Obj([nodes |-> Arr(<< >>)]),
                        message |-> Str("1 node")]) },
             isError |-> { Bool(FALSE) },
             content |-> { Arr(<< TextBlock(PlainText) >>) }]) } }

Strings == { Str("graphiti") }

\* Optional parameters: absent, empty / zero, or a value.
OptString == { Str(""), Str("graphiti") }
OptNumber == { Num(0), Num(5) }
OptList == { Arr(<< Str("project_1a2b3c4d") >>) }

FacadeInputs ==
    { [fn |-> "facade", method |-> "getStatus", first |-> Undefined, second |-> Undefined] }
    \cup { [fn |-> "facade", method |-> "addMemory", first |-> Obj(r.fields @@ o.fields),
            second |-> Undefined] :
             r \in { Obj([name |-> Str("note"), episodeBody |-> Str("remember this")]) },
             o \in Objects([groupId |-> OptString, source |-> { Str("text") },
                            sourceDescription |-> { Str("chat") }, uuid |-> OptString]) }
    \cup { [fn |-> "facade", method |-> "searchNodes", first |-> q, second |-> o] :
             q \in Strings,
             o \in {Undefined} \cup Objects([groupIds |-> OptList, maxNodes |-> OptNumber,
                                             entityTypes |-> OptList]) }
    \cup { [fn |-> "facade", method |-> "searchFacts", first |-> q, second |-> o] :
             q \in Strings,
             o \in {Undefined} \cup Objects([groupIds |-> OptList, maxFacts |-> OptNumber,
                                             centerNodeUuid |-> OptString]) }
    \cup { [fn |-> "facade", method |-> "getEpisodes", first |-> o, second |-> Undefined] :
             o \in {Undefined} \cup Objects([groupIds |-> OptList,
                                             maxEpisodes |-> OptNumber]) }
    \cup { [fn |-> "facade", method |-> "deleteEpisode", first |-> u, second |-> Undefined] :
             u \in Strings }
    \cup { [fn |-> "facade", method |-> "clearGraph", first |-> o, second |-> Undefined] :
             o \in {Undefined} \cup Objects([groupIds |-> OptList]) }

(***************************************************************************)
(* Strings of the namespace resolver: a string is the sequence of its      *)
(* characters, so that the regular expressions of normalizeGitRemoteUrl    *)
(* act on what they act on in the code.                                    *)
(***************************************************************************)
Digits == { "0", "1", "2", "3", "4", "5", "6", "7", "8", "9" }

Whitespace == { " ", "\t", "\n", "\r" }

UpperToLower ==
    [A |-> "a", B |-> "b", C |-> "c", D |-> "d", E |-> "e", F |-> "f", G |-> "g",
     H |-> "h", I |-> "i", J |-> "j", K |-> "k", L |-> "l", M |-> "m", N |-> "n",
     O |-> "o", P |-> "p", Q |-> "q", R |-> "r", S |-> "s", T |-> "t", U |-> "u",
     V |-> "v", W |-> "w", X |-> "x", Y |-> "y", Z |-> "z"]

Lower(c) == IF c \in DOMAIN UpperToLower THEN UpperToLower[c] ELSE c

\* String.prototype.toLowerCase
toLowerCase(s) == [i \in DOMAIN s |-> Lower(s[i])]

\* s.substring(n): s without its first n characters.
Drop(s, n) == SubSeq(s, n + 1, Len(s))

\* s without its last n characters.
DropLast(s, n) == SubSeq(s, 1, Len(s) - n)

\* String.prototype.trim
RECURSIVE trim(_)
trim(s) ==
    IF s = << >> THEN s
    ELSE IF s[1] \in Whitespace THEN trim(Tail(s))
    ELSE IF s[Len(s)] \in Whitespace THEN trim(DropLast(s, 1))
    ELSE s

\* s starts with `prefix` (given in lower case), letter case ignored.
StartsWithIgnoringCase(s, prefix) ==
    /\ Len(s) >= Len(prefix)
    /\ \A i \in DOMAIN prefix : Lower(s[i]) = prefix[i]

\* s ends with `suffix` (given in lower case), letter case ignored.
EndsWithIgnoringCase(s, suffix) ==
    /\ Len(s) >= Len(suffix)
    /\ \A i \in DOMAIN suffix : Lower(s[Len(s) - Len(suffix) + i]) = suffix[i]

\* replace(/^(https?|ssh):\/\//i, "")
StripScheme(s) ==
    IF StartsWithIgnoringCase(s, << "h", "t", "t", "p", "s", ":", "/", "/" >>) THEN Drop(s, 8)
    ELSE IF StartsWithIgnoringCase(s, << "h", "t", "t", "p", ":", "/", "/" >>) THEN Drop(s, 7)
    ELSE IF StartsWithIgnoringCase(s, << "s", "s", "h", ":", "/", "/" >>) THEN Drop(s, 6)
    ELSE s

\* The positions of s that hold character c.
Positions(s, c) == { i \in DOMAIN s : s[i] = c }

Min(S) == CHOOSE i \in S : \A j \in S : i <= j

\* replace(/^[^@/]+@/, ""): one or more characters other than @ and /, then @.
StripUser(s) ==
    LET stops == Positions(s, "@") \cup Positions(s, "/") IN
    IF stops # {} /\ Min(stops) > 1 /\ s[Min(stops)] = "@"
    THEN Drop(s, Min(stops))
    ELSE s

\* The colons of s that /^[^/]+:/ can reach: at least one character before
\* them and no slash before them.
LeadingColons(s) ==
    { i \in Positions(s, ":") : i > 1 /\ \A j \in 1..(i - 1) : s[j] # "/" }

\* /^[^/]+:[^/]/.test(s)
HasShorthandColon(s) ==
    \E i \in LeadingColons(s) : i < Len(s) /\ s[i + 1] # "/"

\* /^[^/]+:\d+(?:\/|$)/.test(s)
HasPortColon(s) ==
    \E i \in LeadingColons(s) :
        \E j \in (i + 1)..Len(s) :
            /\ \A k \in (i + 1)..j : s[k] \in Digits
            /\ j = Len(s) \/ s[j + 1] = "/"

\* Mutant: the port test is left out.
ColonToSlashIgnoringPort(s) ==
    IF HasShorthandColon(s)
    THEN [i \in DOMAIN s |-> IF i = Min(Positions(s, ":")) THEN "/" ELSE s[i]]
    ELSE s

\* if (shorthand && !port) normalized = normalized.replace(":", "/"):
\* String.replace with a string pattern replaces the first occurrence.
ColonToSlash(s) ==
    IF HasShorthandColon(s) /\ ~HasPortColon(s)
    THEN [i \in DOMAIN s |-> IF i = Min(Positions(s, ":")) THEN "/" ELSE s[i]]
    ELSE s

\* replace(/\.git$/i, "")
StripDotGit(s) == IF EndsWithIgnoringCase(s, << ".", "g", "i", "t" >>) THEN DropLast(s, 4) ELSE s

\* replace(/\/+$/, "")
RECURSIVE StripTrailingSlashes(_)
StripTrailingSlashes(s) ==
    IF s # << >> /\ s[Len(s)] = "/" THEN StripTrailingSlashes(DropLast(s, 1)) ELSE s

\* Mutant: the letter case is kept.
normalizeGitRemoteUrlKeepingCase(url) ==
    StripTrailingSlashes(StripDotGit(ColonToSlash(StripUser(StripScheme(trim(url))))))

normalizeGitRemoteUrl(url) ==
    toLowerCase(
        StripTrailingSlashes(StripDotGit(ColonToSlash(StripUser(StripScheme(trim(url)))))))

(***************************************************************************)
(* Remote URLs: a repository on a hosting service is a host and a path;    *)
(* a syntax is one of the ways git writes its URL.                         *)
(***************************************************************************)
Repos ==
    { [host |-> << "h", "o", "s", "t" >>, path |-> << "o", "r", "g", "/", "r", "e", "p", "o" >>],
      [host |-> << "h", "o", "s", "t" >>, path |-> << "4", "2", "/", "r", "e", "p", "o" >>] }

Syntaxes ==
    [scheme : {"shorthand", "ssh", "http", "https"}, user : BOOLEAN,
     dotGit : BOOLEAN, upper : BOOLEAN]

LowerToUpper == [a |-> "A", b |-> "B", c |-> "C", d |-> "D", e |-> "E", f |-> "F",
                 g |-> "G", h |-> "H", i |-> "I", j |-> "J", k |-> "K", l |-> "L",
                 m |-> "M", n |-> "N", o |-> "O", p |-> "P", q |-> "Q", r |-> "R",
                 s |-> "S", t |-> "T", u |-> "U", v |-> "V", w |-> "W", x |-> "X",
                 y |-> "Y", z |-> "Z"]

UpperCase(s) == [i \in DOMAIN s |-> IF s[i] \in DOMAIN LowerToUpper THEN LowerToUpper[s[i]] ELSE s[i]]

\* The URL of repository r written in syntax sy.
Render(r, sy) ==
    LET user == IF sy.user THEN << "g", "i", "t", "@" >> ELSE << >>
        suffix == IF sy.dotGit THEN << ".", "g", "i", "t" >> ELSE << >>
        url == CASE sy.scheme = "shorthand" -> user \o r.host \o << ":" >> \o r.path \o suffix
                 [] sy.scheme = "ssh" -> << "s", "s", "h", ":", "/", "/" >> \o user \o r.host \o << "/" >> \o r.path \o suffix
                 [] sy.scheme = "http" -> << "h", "t", "t", "p", ":", "/", "/" >> \o user \o r.host \o << "/" >> \o r.path \o suffix
                 [] sy.scheme = "https" -> << "h", "t", "t", "p", "s", ":", "/", "/" >> \o user \o r.host \o << "/" >> \o r.path \o suffix
    IN  IF sy.upper THEN UpperCase(url) ELSE url

\* What follows `host:` in the inputs that have a colon after the host: ports,
\* ports with a path, relative paths, an absolute path.
AfterColon ==
    { << "2", "2" >>, << "2", "2", "/", "o", "r", "g", "/", "r", "e", "p", "o" >>, << "8", "4", "4", "3", "/" >>, << "o", "r", "g", "/", "r", "e", "p", "o" >>, << "2", "a", "/", "r", "e", "p", "o" >>, << "r", "e", "p", "o" >>,
      << "/", "s", "r", "v", "/", "g", "i", "t", "/", "r", "e", "p", "o" >> }

\* The endings a remote URL is written with, and the URLs they are put on.
Suffixes == { << >>, << ".", "g", "i", "t" >>, << "/" >>, << ".", "g", "i", "t", "/" >>, << ".", "G", "I", "T" >> }

SuffixBases == { << "h", "t", "t", "p", "s", ":", "/", "/", "h", "o", "s", "t", "/", "o", "r", "g", "/", "r", "e", "p", "o" >>, << "g", "i", "t", "@", "h", "o", "s", "t", ":", "o", "r", "g", "/", "r", "e", "p", "o" >>, << "s", "s", "h", ":", "/", "/", "g", "i", "t", "@", "H", "o", "s", "t", "/", "O", "r", "g", "/", "R", "e", "p", "o" >> }

NormalizeInputs ==
    { [fn |-> "normalizeGitRemoteUrl", kind |-> "repo", repo |-> r, syntax |-> sy,
       url |-> Render(r, sy)] : r \in Repos, sy \in Syntaxes }
    \cup { [fn |-> "normalizeGitRemoteUrl", kind |-> "colon", host |-> << "h", "o", "s", "t" >>,
            rest |-> x, url |-> << "h", "o", "s", "t", ":" >> \o x] : x \in AfterColon }
    \cup { [fn |-> "normalizeGitRemoteUrl", kind |-> "other", url |-> u] :
             u \in { << " ", " ", "h", "t", "t", "p", "s", ":", "/", "/", "h", "o", "s", "t", "/", "o", "r", "g", "/", "r", "e", "p", "o", ".", "g", "i", "t", "\n" >>, << "h", "t", "t", "p", "s", ":", "/", "/", "h", "o", "s", "t", "/", "o", "r", "g", "/", "r", "e", "p", "o", "/", "/", "/" >>,
                     << "g", "i", "t", ":", "/", "/", "h", "o", "s", "t", "/", "o", "r", "g", "/", "r", "e", "p", "o" >>, << "h", "t", "t", "p", "s", ":", "/", "/", "u", "s", "e", "r", ":", "t", "o", "k", "e", "n", "@", "h", "o", "s", "t", "/", "o", "r", "g", "/", "r", "e", "p", "o" >>,
                     << >> } }
    \cup { [fn |-> "normalizeGitRemoteUrl", kind |-> "suffix", base |-> u, suffix |-> x,
            url |-> u \o x] : u \in SuffixBases, x \in Suffixes }

Inputs ==
    { [fn |-> "parseSSEResponse", lines |-> b] : b \in Bodies }
    \cup { [fn |-> "callTool", result |-> r] : r \in ToolErrorResults \cup ToolOkResults }
    \cup FacadeInputs
    \cup NormalizeInputs

PureInit ==
    /\ input \in Inputs
    /\ output = << >>
    /\ ResolverStart
    /\ gitOf = [d \in Dirs |-> NotARepository]
    /\ AppStart
    /\ sessionIdOf = [c \in Instances |-> Null]
    /\ requestIdOf = [c \in Instances |-> 0]
    /\ on = [p \in Ops |-> "A"]
    /\ pc = [p \in Ops |-> "idle"]
    /\ resp = [p \in Ops |-> Null]
    /\ result = [p \in Ops |-> << >>]
    /\ sent = << >>
    /\ nextOp = 1
    /\ overlapped = FALSE
    /\ gotInit = [p \in Ops |-> NoOutcome]
    /\ gotCall = [p \in Ops |-> NoOutcome]
    /\ late = [p \in Ops |-> NoFetch]

\* parseSSEResponse(responseText)
ApplyParseSSEResponse ==
    /\ input.fn = "parseSSEResponse" /\ output = << >>
    /\ output' = << parseSSEResponse(input.lines) >>
    /\ UNCHANGED << clientVars, input, nsVars, appVars >>

\* callTool from the decoded response { result } on.
ApplyCallTool ==
    /\ input.fn = "callTool" /\ output = << >>
    /\ output' = << CallToolResult(Obj([result |-> input.result])) >>
    /\ UNCHANGED << clientVars, input, nsVars, appVars >>

\* A facade method up to its call of callTool.
ApplyFacade ==
    /\ input.fn = "facade" /\ output = << >>
    /\ output' = << Facade(input.method, input.first, input.second) >>
    /\ UNCHANGED << clientVars, input, nsVars, appVars >>

\* normalizeGitRemoteUrl(url)
ApplyNormalizeGitRemoteUrl ==
    /\ input.fn = "normalizeGitRemoteUrl" /\ output = << >>
    /\ output' = << normalizeGitRemoteUrl(input.url) >>
    /\ UNCHANGED << clientVars, input, nsVars, appVars >>

PureNext ==
    \/ ApplyParseSSEResponse
    \/ ApplyCallTool
    \/ ApplyFacade
    \/ ApplyNormalizeGitRemoteUrl

PureSpec == PureInit /\ [][PureNext]_vars

(***************************************************************************)
(* The namespace resolver: getProjectNamespace with its process-wide       *)
(* fingerprint cache, and git as the directories' environment.             *)
(***************************************************************************)
\* config.groupId of the ready configuration.
GroupId == << "t", "e", "a", "m" >>

\* hash.substring(0, 8)
FingerprintLength == 8

\* SHA-256 hex digests, cut to the ten leading characters: the eight the code
\* keeps and two it drops.  SHA-256 is taken to give different digests to
\* different strings; two digests may still agree in their leading eight.
Digests == { << "1", "a", "2", "b", "3", "c", "4", "d", "e", "5" >>, << "1", "a", "2", "b", "3", "c", "4", "d", "0", "f" >>, << "9", "f", "8", "e", "7", "d", "6", "c", "e", "5" >> }

\* createHash("sha256").update(hashInput).digest("hex"): the digests identity
\* can have, given the digests computed so far.
DigestChoices(identity) ==
    IF \E e \in sha : e.identity = identity
    THEN { e.digest : e \in { x \in sha : x.identity = identity } }
    ELSE Digests \ { e.digest : e \in sha }

\* Mutant: the whole digest is the fingerprint.
FingerprintWhole(digest) == digest

Fingerprint(digest) == SubSeq(digest, 1, FingerprintLength)

\* Mutant: a failed lookup yields a placeholder URL.
getGitRemoteUrlPlaceholder(lookup) ==
    IF lookup.threw THEN << << "u", "n", "k", "n", "o", "w", "n" >> >> ELSE << trim(lookup.stdout) >>

\* getGitRemoteUrl: << >> for null, << url >> for the trimmed output.
getGitRemoteUrl(lookup) ==
    IF lookup.threw THEN << >> ELSE << trim(lookup.stdout) >>

\* replace(/\\/g, "/")
BackslashesToSlashes(s) == [i \in DOMAIN s |-> IF s[i] = "\\" THEN "/" ELSE s[i]]

\* getRelativePathFromGitRoot: "" when the lookup fails.
getRelativePathFromGitRoot(lookup) ==
    IF lookup.threw THEN << >>
    ELSE StripTrailingSlashes(BackslashesToSlashes(trim(lookup.stdout)))

\* Mutant: the relative path is left out of the identity.
HashInputWithoutPath(dirPath, git) ==
    LET remoteUrl == getGitRemoteUrl(git.remote) IN
    IF remoteUrl # << >> /\ remoteUrl[1] # << >>
    THEN normalizeGitRemoteUrl(remoteUrl[1])
    ELSE dirPath

\* getProjectHash: the string that is hashed (the canonical identity).
HashInput(dirPath, git) ==
    LET remoteUrl == getGitRemoteUrl(git.remote) IN
    IF remoteUrl # << >> /\ remoteUrl[1] # << >>
    THEN LET normalizedUrl == normalizeGitRemoteUrl(remoteUrl[1])
             relativePath == getRelativePathFromGitRoot(git.prefix)
         IN  IF relativePath # << >>
             THEN normalizedUrl \o << "/" >> \o relativePath
             ELSE normalizedUrl
    ELSE dirPath

\* Mutant: the cache is never hit.
CachedHashNever(cache, dirPath) == << >>

\* _hashCache.get(dirPath): << >> when absent.
CachedHash(cache, dirPath) == cache[dirPath]

\* Mutant: the fingerprint is not stored.
StoreHashNowhere(cache, dirPath, hash) == cache

\* Mutant: one cache entry for all directories.
StoreHashForAll(cache, dirPath, hash) == [d \in DOMAIN cache |-> << hash >>]

\* _hashCache.set(dirPath, hash)
StoreHash(cache, dirPath, hash) == [cache EXCEPT ![dirPath] = << hash >>]

\* Mutant: group id and fingerprint joined without the underscore.
NamespaceWithoutUnderscore(groupId, dirHash) == groupId \o dirHash

\* getProjectNamespace: `${config.groupId}_${dirHash}`
Namespace(groupId, dirHash) == groupId \o << "_" >> \o dirHash

\* Counting saturates at this many lookups.
MaxCounted == 2

Counted(n) == IF n < MaxCounted THEN n + 1 ELSE n

\* What git answers in a directory.
OriginShorthand == << "g", "i", "t", "@", "h", "o", "s", "t", ":", "o", "r", "g", "/", "r", "e", "p", "o", ".", "g", "i", "t", "\n" >>
OriginOfParent == << "h", "t", "t", "p", "s", ":", "/", "/", "h", "o", "s", "t", "/", "o", "r", "g", "\n" >>

GitStates ==
    { NotARepository,
      [remote |-> Stdout(<< "\n" >>), prefix |-> Stdout(<< "\n" >>)],
      [remote |-> Stdout(OriginShorthand), prefix |-> Threw],
      [remote |-> Stdout(OriginShorthand), prefix |-> Stdout(<< "\n" >>)],
      [remote |-> Stdout(OriginShorthand), prefix |-> Stdout(<< "p", "k", "g", "/", "a", "p", "p", "/", "\n" >>)],
      [remote |-> Stdout(OriginOfParent), prefix |-> Stdout(<< "r", "e", "p", "o", "/", "p", "k", "g", "/", "a", "p", "p", "/", "\n" >>)] }

\* getProjectNamespace(dirPath), with getProjectHash: a cache hit returns the
\* cached fingerprint; a miss runs the lookups, hashes the identity and caches
\* the fingerprint.
GetProjectNamespace(dirPath) ==
    LET cachedHash == CachedHash(hashCache, dirPath) IN
    IF cachedHash # << >> /\ cachedHash[1] # << >>
    THEN /\ ret' = [dir |-> dirPath, namespace |-> Namespace(GroupId, cachedHash[1]),
                    cached |-> TRUE, git |-> gitOf[dirPath]]
         /\ firstNs' = [firstNs EXCEPT ![dirPath] =
                            IF @ = << >> THEN << Namespace(GroupId, cachedHash[1]) >> ELSE @]
         /\ UNCHANGED << hashCache, gitOf, sha, resolved, lookups >>
    ELSE LET hashInput == HashInput(dirPath, gitOf[dirPath]) IN
         \E digest \in DigestChoices(hashInput) :
             LET hash == Fingerprint(digest) IN
             /\ sha' = sha \cup { [identity |-> hashInput, digest |-> digest] }
             /\ hashCache' = StoreHash(hashCache, dirPath, hash)
             /\ lookups' = [lookups EXCEPT ![dirPath] = Counted(@)]
             /\ resolved' = [resolved EXCEPT ![dirPath] =
                                << [git |-> gitOf[dirPath], identity |-> hashInput] >>]
             /\ ret' = [dir |-> dirPath, namespace |-> Namespace(GroupId, hash),
                        cached |-> FALSE, git |-> gitOf[dirPath]]
             /\ firstNs' = [firstNs EXCEPT ![dirPath] =
                                IF @ = << >> THEN << Namespace(GroupId, hash) >> ELSE @]
             /\ UNCHANGED gitOf

\* A call of getProjectNamespace.
Resolve(dirPath) ==
    /\ GetProjectNamespace(dirPath)
    /\ UNCHANGED << clientVars, input, output, appVars >>

\* Outside the program: the origin is set, changed or removed, the directory
\* is moved within its repository.
GitChanges(dirPath) ==
    /\ \E g \in GitStates \ { gitOf[dirPath] } : gitOf' = [gitOf EXCEPT ![dirPath] = g]
    /\ UNCHANGED << hashCache, sha, resolved, lookups, firstNs, ret >>
    /\ UNCHANGED << clientVars, input, output, appVars >>

NamespaceInit ==
    /\ input = NoInput
    /\ output = << >>
    /\ ResolverStart
    /\ gitOf \in [Dirs -> GitStates]
    /\ AppStart
    /\ sessionIdOf = [c \in Instances |-> Null]
    /\ requestIdOf = [c \in Instances |-> 0]
    /\ on = [p \in Ops |-> "A"]
    /\ pc = [p \in Ops |-> "idle"]
    /\ resp = [p \in Ops |-> Null]
    /\ result = [p \in Ops |-> << >>]
    /\ sent = << >>
    /\ nextOp = 1
    /\ overlapped = FALSE
    /\ gotInit = [p \in Ops |-> NoOutcome]
    /\ gotCall = [p \in Ops |-> NoOutcome]
    /\ late = [p \in Ops |-> NoFetch]

NamespaceNext ==
    \/ \E d \in Dirs : Resolve(d)
    \/ \E d \in Dirs : GitChanges(d)

NamespaceSpec == NamespaceInit /\ [][NamespaceNext]_vars

(***************************************************************************)
(* The configuration module: initConfig memoizes the configuration state   *)
(* in _configState until resetConfig.                                      *)
(***************************************************************************)
\* What the environment variables GRAPHITI_URL, GRAPHITI_GROUP_ID and
\* GRAPHITI_USER_ID, the global file (profileGroupId, injectProfile) and the
\* local file of a project (groupId) may hold.
Environments ==
    [url : { << >>, << << "h", "t", "t", "p", ":", "/", "/", "m", "e", "m", ":", "8", "0", "0", "0" >> >> },
     groupId : { << >>, << << "t", "e", "a", "m" >> >> },
     userId : { << >>, << << "a", "l", "i", "c", "e" >> >> },
     profileGroupId : { << >>, << << "m", "e" >> >> },
     localGroupId : { << >>, << << "p", "r", "o", "j" >> >> },
     injectProfile : { << >>, << FALSE >> }]

\* The projectDir argument: undefined or a directory.
ProjectDirs == { << >> } \cup { << d >> : d \in Dirs }

\* The directory that has a .opencode/graphiti.jsonc, and the name in the
\* package.json of a directory ("" when it has none).
LocalConfigDir == << "/", "w", "/", "a" >>

PackageName(dir) == IF dir = << "/", "w", "/", "a" >> THEN << "M", "y", " ", "A", "p", "p", "!" >> ELSE << >>

Max(S) == CHOOSE i \in S : \A j \in S : i >= j

\* path.basename
basename(path) ==
    IF Positions(path, "/") = {} THEN path ELSE Drop(path, Max(Positions(path, "/")))

\* extractProjectName: the package name, else the directory name.
extractProjectName(projectDir) ==
    IF trim(PackageName(projectDir)) # << >> THEN PackageName(projectDir)
    ELSE basename(projectDir)

NameCharacters ==
    Digits \cup { "_", "-" } \cup { UpperToLower[c] : c \in DOMAIN UpperToLower }

\* replace(/_+/g, "_")
RECURSIVE CollapseUnderscores(_)
CollapseUnderscores(s) ==
    IF Len(s) < 2 THEN s
    ELSE IF s[1] = "_" /\ s[2] = "_" THEN CollapseUnderscores(Drop(s, 1))
    ELSE << s[1] >> \o CollapseUnderscores(Drop(s, 1))

\* replace(/^_+|_+$/g, "") on a string whose underscores are single.
StripUnderscores(s) ==
    LET t == IF s # << >> /\ s[1] = "_" THEN Drop(s, 1) ELSE s IN
    IF t # << >> /\ t[Len(t)] = "_" THEN DropLast(t, 1) ELSE t

sanitizeNamespace(name) ==
    LET lower == toLowerCase(name)
        replaced == [i \in DOMAIN lower |->
                        IF lower[i] \in NameCharacters THEN lower[i] ELSE "_"]
    IN  StripUnderscores(CollapseUnderscores(replaced))

\* normalizeGraphitiUrl
normalizeGraphitiUrl(url) ==
    LET normalized == StripTrailingSlashes(url) IN
    IF Len(normalized) >= 4 /\ SubSeq(normalized, Len(normalized) - 3, Len(normalized)) = << "/", "m", "c", "p" >>
    THEN normalized \o << "/" >>
    ELSE normalized \o << "/", "m", "c", "p", "/" >>

\* A ConfigState; config is << >> unless the status is ready.
Unconfigured(reason) == [status |-> "unconfigured", reason |-> reason, config |-> << >>]

Ready(config) == [status |-> "ready", reason |-> "", config |-> << config >>]

\* initConfig from its first file access on: the state computed from the
\* files and the environment.
LoadConfig(projectDir, e) ==
    LET hasDir == Present(projectDir)
        localGroupId == IF hasDir /\ projectDir[1] = LocalConfigDir THEN e.localGroupId
                        ELSE << >>
        mergedGroupId == IF Present(localGroupId) THEN localGroupId ELSE << >>
        graphitiUrl == e.url
        userId == e.userId
        envGroupId == IF e.groupId # << >> THEN e.groupId ELSE mergedGroupId
        groupId == IF ~Present(envGroupId) /\ Present(userId) /\ hasDir
                   THEN << userId[1] \o << "_" >>
                              \o sanitizeNamespace(extractProjectName(projectDir[1])) >>
                   ELSE envGroupId
    IN  IF ~Present(graphitiUrl)
        THEN Unconfigured("Missing required field: graphitiUrl")
        ELSE IF ~Present(groupId)
        THEN Unconfigured("Missing required field: groupId")
        ELSE Ready([graphitiUrl |-> normalizeGraphitiUrl(graphitiUrl[1]),
                    groupId |-> groupId[1],
                    userId |-> userId,
                    profileGroupId |->
                        IF e.profileGroupId # << >> THEN e.profileGroupId[1]
                        ELSE IF userId # << >> THEN userId[1]
                        ELSE groupId[1] \o << "_", "p", "r", "o", "f", "i", "l", "e" >>,
                    injectProfile |->
                        IF e.injectProfile # << >> THEN e.injectProfile[1] ELSE TRUE])

\* Mutant: the state is computed anew by every call.
MemoizedNever(state) == FALSE

\* `_configState !== null`
Memoized(state) == state # << >>

\* initConfig(projectDir)
InitConfig(projectDir) ==
    /\ IF Memoized(configState)
       THEN /\ cfgRet' = Returned("initConfig", projectDir, TRUE, FALSE, configState, << >>)
            /\ UNCHANGED configState
       ELSE LET state == LoadConfig(projectDir, env) IN
            /\ configState' = << state >>
            /\ cfgRet' = Returned("initConfig", projectDir, FALSE, FALSE, << state >>, << >>)
    /\ UNCHANGED << env, injectedSessions, chat, fetched, message, tool, written >>
    /\ UNCHANGED << clientVars, input, output, nsVars >>

\* Mutant: getConfig returns whatever state is held.
GetConfigResultUnchecked(state) ==
    IF state = << >> THEN [threw |-> TRUE, value |-> << >>]
    ELSE [threw |-> FALSE, value |-> << state[1].status >>]

\* getConfig: the config of the ready state, an exception otherwise.
GetConfigResult(state) ==
    IF state = << >> \/ state[1].status # "ready"
    THEN [threw |-> TRUE, value |-> << >>]
    ELSE [threw |-> FALSE, value |-> state[1].config]

\* getConfig()
GetConfig ==
    /\ cfgRet' = Returned("getConfig", << >>, FALSE, GetConfigResult(configState).threw,
                           configState, GetConfigResult(configState).value)
    /\ UNCHANGED << configState, env, injectedSessions, chat, fetched, message, tool, written >>
    /\ UNCHANGED << clientVars, input, output, nsVars >>

\* resetConfig()
ResetConfig ==
    /\ configState' = << >>
    /\ cfgRet' = Returned("resetConfig", << >>, FALSE, FALSE, << >>, << >>)
    /\ UNCHANGED << env, injectedSessions, chat, fetched, message, tool, written >>
    /\ UNCHANGED << clientVars, input, output, nsVars >>

\* Outside the program: environment variables and files change.
EnvironmentChanges ==
    /\ \E e \in Environments \ { env } : env' = e
    /\ UNCHANGED << configState, cfgRet, injectedSessions, chat, fetched, message, tool, written >>
    /\ UNCHANGED << clientVars, input, output, nsVars >>

\* The client, unused.
ClientIdle ==
    /\ sessionIdOf = [c \in Instances |-> Null]
    /\ requestIdOf = [c \in Instances |-> 0]
    /\ on = [p \in Ops |-> "A"]
    /\ pc = [p \in Ops |-> "idle"]
    /\ resp = [p \in Ops |-> Null]
    /\ result = [p \in Ops |-> << >>]
    /\ sent = << >>
    /\ nextOp = 1
    /\ overlapped = FALSE
    /\ gotInit = [p \in Ops |-> NoOutcome]
    /\ gotCall = [p \in Ops |-> NoOutcome]
    /\ late = [p \in Ops |-> NoFetch]

ConfigInit ==
    /\ ClientIdle
    /\ input = NoInput
    /\ output = << >>
    /\ ResolverStart
    /\ gitOf = [d \in Dirs |-> NotARepository]
    /\ ConfigStart
    /\ PluginStart
    /\ env \in Environments

ConfigNext ==
    \/ \E projectDir \in ProjectDirs : InitConfig(projectDir)
    \/ GetConfig
    \/ ResetConfig
    \/ EnvironmentChanges

ConfigSpec == ConfigInit /\ [][ConfigNext]_vars

(***************************************************************************)
(* The plugin: the graphiti tool.  The client is seen through the results  *)
(* its facade returns.                                                     *)
(***************************************************************************)
\* ctx.directory
Directory == << "/", "w", "/", "a" >>

\* The environments the plugin is constructed in.
PluginEnvironments ==
    { e \in Environments :
        /\ e.localGroupId = << >>
        /\ e.url = << >> => e = NoEnvironment
        /\ e.url # << >> => e.groupId # << >>
        /\ e.injectProfile # << >> => (e.profileGroupId # << >> /\ e.userId = << >>) }

\* sha256(dirPath) in hex, cut like the other digests.
DirectoryDigest(dirPath) == << "9", "f", "8", "e", "7", "d", "6", "c", "e", "5" >>

\* namespace.ts: getDirectoryHash
getDirectoryHash(dirPath) == SubSeq(DirectoryDigest(dirPath), 1, FingerprintLength)

\* namespace.ts: getProjectNamespace, for the ready config
ProjectNamespace(config, projectDir) == config.groupId \o << "_" >> \o getDirectoryHash(projectDir)

\* Mutant: every scope is the project's.
resolveGroupIdProjectOnly(scope, projectDir, config) == ProjectNamespace(config, projectDir)

resolveGroupId(scope, projectDir, config) ==
    IF scope = "user" THEN config.profileGroupId
    ELSE ProjectNamespace(config, projectDir)

\* The content argument: a string, with how much of it is inside <private> tags.
Content(text, private) == [type |-> "string", v |-> text, private |-> private]

Contents ==
    { Undefined, Content("", "none"), Content("use pnpm", "none"),
      Content("API key is <private>sk-abc123</private>", "part"),
      Content("<private>secret</private>", "all") }

\* privacy.ts
stripPrivateContent(content) ==
    CASE content.private = "part" -> "API key is [REDACTED]"
      [] content.private = "all" -> "[REDACTED]"
      [] OTHER -> content.v

isFullyPrivate(content) == content.private = "all"

NoArgs ==
    [mode |-> Undefined, content |-> Undefined, query |-> Undefined, type |-> Undefined,
     scope |-> Undefined, memoryId |-> Undefined, limit |-> Undefined]

Scopes == { Undefined, Str("user"), Str("project") }

\* The arguments the tool is executed with.
ToolArgs ==
    { [NoArgs EXCEPT !.mode = m] : m \in { Undefined, Str(""), Str("help"), Str("stats") } }
    \cup { [NoArgs EXCEPT !.mode = Str("add"), !.content = c, !.scope = s, !.type = t] :
             c \in Contents, s \in Scopes, t \in { Undefined, Str("preference") } }
    \cup { [NoArgs EXCEPT !.mode = Str("search"), !.query = q, !.scope = s] :
             q \in { Undefined, Str(""), Str("lint") }, s \in Scopes }
    \cup { [NoArgs EXCEPT !.mode = Str("profile"), !.query = q] :
             q \in { Undefined, Str("editor") } }
    \cup { [NoArgs EXCEPT !.mode = Str("list"), !.scope = s, !.limit = l] :
             s \in Scopes, l \in { Undefined, Num(0), Num(5) } }
    \cup { [NoArgs EXCEPT !.mode = Str("forget"), !.memoryId = i] :
             i \in { Undefined, Str(""), Str("ep-1") } }

\* `x || fallback`
OrElse(v, fallback) == IF Truthy(v) THEN v.v ELSE fallback

\* Mutant: the mode defaults to list.
ModeDefaultList(args) == OrElse(args.mode, "list")

\* `args.mode || "help"`
Mode(args) == OrElse(args.mode, "help")

\* What the tool returns: JSON.stringify of an object with success and, as the
\* case may be, error, warning and the payload.
Reply(success, error, warning, payload) ==
    [success |-> success, error |-> error, warning |-> warning, payload |-> payload]

Refused(error) == Reply(FALSE, << error >>, << >>, << >>)

\* execute up to its first await: << reply >> when it returns without calling
\* the client, << >> otherwise.
ReturnsAtOnce(args, state) ==
    LET mode == Mode(args) IN
    IF state.status # "ready"
    THEN << Refused(<< "Graphiti not configured: ", state.reason >>) >>
    ELSE CASE mode = "help" -> << Reply(TRUE, << >>, << >>, << "help" >>) >>
           [] mode = "add" /\ ~Truthy(args.content) ->
                  << Refused(<< "content parameter is required for add mode" >>) >>
           [] mode = "add" /\ Truthy(args.content) /\ isFullyPrivate(args.content) ->
                  << Refused(<< "Content is fully private and cannot be stored" >>) >>
           [] mode = "search" /\ ~Truthy(args.query) ->
                  << Refused(<< "query parameter is required for search mode" >>) >>
           [] mode = "forget" /\ ~Truthy(args.memoryId) ->
                  << Refused(<< "memoryId parameter is required for forget mode" >>) >>
           [] mode \notin { "help", "add", "search", "profile", "list", "forget" } ->
                  << Refused(<< "Unknown mode: ", mode >>) >>
           [] OTHER -> << >>

\* A call of a facade method of the client.
Call(method, groupIds, arg) == [method |-> method, groupIds |-> groupIds, arg |-> arg]

\* The facade calls execute makes before its await.
ClientCalls(args, config) ==
    LET mode == Mode(args) IN
    CASE mode = "add" ->
             << Call("addMemory",
                     << resolveGroupId(OrElse(args.scope, "project"), Directory, config) >>,
                     << "[TYPE: ", OrElse(args.type, "learned-pattern"), "] ",
                        stripPrivateContent(args.content) >>) >>
      [] mode = "search" ->
             LET groupIds ==
                     IF args.scope = Str("user") THEN << config.profileGroupId >>
                     ELSE IF args.scope = Str("project")
                     THEN << ProjectNamespace(config, Directory) >>
                     ELSE << config.profileGroupId, ProjectNamespace(config, Directory) >>
             IN  << Call("searchNodes", groupIds, << args.query.v >>),
                    Call("searchFacts", groupIds, << args.query.v >>) >>
      [] mode = "profile" ->
             << Call("searchNodes", << config.profileGroupId >>,
                     << OrElse(args.query, "user preferences") >>) >>
      [] mode = "list" ->
             << Call("getEpisodes",
                     << resolveGroupId(OrElse(args.scope, "project"), Directory, config) >>,
                     << OrElse(args.limit, 20) >>) >>
      [] mode = "forget" -> << Call("deleteEpisode", << >>, << args.memoryId.v >>) >>

\* What a facade call of the plugin resolves to: data with its list missing,
\* empty or of one item, a connectivity failure, an application failure.
Item == [uuid |-> "ep-1", prefix |-> << "preference" >>, text |-> "use pnpm"]

ClientResults ==
    { Success([items |-> << >>]), Success([items |-> << << >> >>]),
      Success([items |-> << << Item >> >>]),
      CatchError(<< TimeoutMessage >>),
      CallToolResult(JSONParse(JsonToolError).value) }

\* `result.error || fallback`
ErrorOr(r, fallback) ==
    IF \E i \in DOMAIN r.error : r.error[i] # "" THEN r.error ELSE << fallback >>

\* parseTypePrefix and the object built from it.
Memory(item) ==
    [memoryId |-> item.uuid, content |-> item.text,
     type |-> IF item.prefix # << >> THEN item.prefix[1] ELSE "unknown"]

\* `.map` on a list that is missing throws; the catch block of execute
\* returns the exception's message.
TypeErrorReply == Refused(<< "TypeError: undefined is not an object" >>)

ServiceUnavailable == "Graphiti service temporarily unavailable"

\* Mutant: a connectivity failure is reported like an application failure.
DegradedNever(r, empty) == << >>

\* profile and list: the reply to a connectivity failure, << >> otherwise.
Degraded(r, empty) ==
    IF ~r.success /\ r.isUnreachable
    THEN << Reply(TRUE, << >>, << ServiceUnavailable >>, empty) >>
    ELSE << >>

\* execute after its await, with the results of its facade calls.
ReturnsAfter(args, results) ==
    LET mode == Mode(args)
        r == results[1]
    IN  CASE mode = "add" ->
                 IF ~r.success THEN Refused(ErrorOr(r, "Failed to add memory"))
                 ELSE Reply(TRUE, << >>, << >>,
                            << "saved", OrElse(args.scope, "project"),
                               OrElse(args.type, "learned-pattern") >>)
          [] mode = "search" ->
                 LET nodes == results[1]
                     facts == results[2]
                 IN  IF (nodes.success /\ nodes.data.items = << >>)
                          \/ (facts.success /\ facts.data.items = << >>)
                     THEN TypeErrorReply
                     ELSE Reply(TRUE, << >>,
                                IF ~nodes.success /\ nodes.isUnreachable
                                THEN << ServiceUnavailable >> ELSE << >>,
                                << "results",
                                   (IF nodes.success THEN nodes.data.items[1] ELSE << >>)
                                   \o (IF facts.success THEN facts.data.items[1] ELSE << >>) >>)
          [] mode = "profile" ->
                 IF ~r.success
                 THEN IF Degraded(r, << "profile", << >> >>) # << >>
                      THEN Degraded(r, << "profile", << >> >>)[1]
                      ELSE Refused(ErrorOr(r, "Failed to fetch profile"))
                 ELSE IF r.data.items = << >> THEN TypeErrorReply
                 ELSE Reply(TRUE, << >>, << >>, << "profile", r.data.items[1] >>)
          [] mode = "list" ->
                 IF ~r.success
                 THEN IF Degraded(r, << "memories", << >> >>) # << >>
                      THEN Degraded(r, << "memories", << >> >>)[1]
                      ELSE Refused(ErrorOr(r, "Failed to list memories"))
                 ELSE IF r.data.items = << >> THEN TypeErrorReply
                 ELSE Reply(TRUE, << >>, << >>,
                            << "memories",
                               [i \in DOMAIN r.data.items[1] |-> Memory(r.data.items[1][i])] >>)
          [] mode = "forget" ->
                 IF ~r.success THEN Refused(ErrorOr(r, "Failed to delete memory"))
                 ELSE Reply(TRUE, << >>, << >>, << "deleted" >>)

\* An execution of the tool: its arguments, the facade calls it made, their
\* results and its return value.
Execution(phase, args, calls, results, reply) ==
    [phase |-> phase, args |-> args, calls |-> calls, results |-> results, reply |-> reply]

\* execute(args) up to its return or its await.
ToolExecute(args) ==
    /\ configState # << >>
    /\ tool.phase # "awaiting"
    /\ LET state == configState[1]
           early == ReturnsAtOnce(args, state)
       IN  IF early # << >>
           THEN /\ tool' = Execution("returned", args, << >>, << >>, early)
                /\ UNCHANGED written
           ELSE LET calls == ClientCalls(args, state.config[1]) IN
                /\ tool' = Execution("awaiting", args, calls, << >>, << >>)
                /\ written' = written \cup
                       { [scope |-> OrElse(args.scope, "project"), groupId |-> c.groupIds[1]] :
                           c \in { calls[i] : i \in { j \in DOMAIN calls :
                                                        calls[j].method = "addMemory" } } }
    /\ UNCHANGED << configState, env, cfgRet, injectedSessions, chat, fetched, message >>
    /\ UNCHANGED << clientVars, input, output, nsVars >>

\* The facade calls of the execution resolve and execute returns.
ToolResumes ==
    /\ tool.phase = "awaiting"
    /\ \E results \in [DOMAIN tool.calls -> ClientResults] :
         tool' = Execution("returned", tool.args, tool.calls, results,
                           << ReturnsAfter(tool.args, results) >>)
    /\ UNCHANGED << configState, env, cfgRet, injectedSessions, chat, fetched, message, written >>
    /\ UNCHANGED << clientVars, input, output, nsVars >>

\* The plugin has been constructed in Directory: initConfig(directory) has run.
PluginInit ==
    /\ ClientIdle
    /\ input = NoInput
    /\ output = << >>
    /\ ResolverStart
    /\ gitOf = [d \in Dirs |-> NotARepository]
    /\ PluginStart
    /\ env \in PluginEnvironments
    /\ configState = << LoadConfig(<< Directory >>, env) >>
    /\ cfgRet = Returned("initConfig", << Directory >>, FALSE, FALSE, configState, << >>)

ToolNext ==
    \/ \E args \in ToolArgs : ToolExecute(args)
    \/ ToolResumes

ToolSpec == PluginInit /\ [][ToolNext]_vars

(***************************************************************************)
(* The plugin: the chat.message hook.                                      *)
(***************************************************************************)
\* output.parts of a message: the texts of its text parts, whether their join
\* is blank after trim, and whether a keyword occurs in it outside code.
Parts(texts, blank, keyword) == [texts |-> texts, blank |-> blank, keyword |-> keyword]

Messages ==
    { Parts(<< >>, TRUE, FALSE),
      Parts(<< "  ", "\n" >>, TRUE, FALSE),
      Parts(<< "fix the bug" >>, FALSE, FALSE),
      Parts(<< "remember this:", "use pnpm" >>, FALSE, TRUE),
      Parts(<< "what does (code: remember) do" >>, FALSE, FALSE) }

detectMemoryKeyword(parts) == parts.keyword

\* Mutant: every message is taken for the first of its session.
IsFirstMessageAlways(sessionID, sessions) == TRUE

\* `!injectedSessions.has(input.sessionID)`
IsFirstMessage(sessionID, sessions) == sessionID \notin sessions

\* The facade calls of the Promise.all of chat.message.
ContextCalls(config, parts) ==
    (IF config.injectProfile
     THEN << Call("searchNodes", << config.profileGroupId >>, << "user preferences" >>) >>
     ELSE << >>) \o
    << Call("getEpisodes", << ProjectNamespace(config, Directory) >>, << >>),
       Call("searchNodes", << ProjectNamespace(config, Directory) >>, parts.texts),
       Call("searchFacts", << ProjectNamespace(config, Directory) >>, parts.texts) >>

\* `result.success ? result.data.<list> : []`, the list as an option
ListOf(r) == IF r.success THEN r.data.items ELSE << << >> >>

\* context.ts: formatContext, which reads the length of every list
formatContext(lists) ==
    IF \E i \in DOMAIN lists : lists[i] = << >>
    THEN [thrown |-> << "TypeError" >>]
    ELSE IF \A i \in DOMAIN lists : lists[i][1] = << >>
    THEN [value |-> << >>]
    ELSE [value |-> << "[GRAPHITI]" >>]

\* A counter of the history of a session, advanced.
Advance(s, field) == Counted(fetched[s][field])

\* chat.message(input, output) up to its return or its await.
ChatMessage(s, parts) ==
    /\ configState # << >>
    /\ LET state == configState[1]
           said == parts.texts # << >> /\ ~parts.blank
           first == IsFirstMessage(s, injectedSessions)
       IN  IF state.status # "ready" \/ ~said
           THEN /\ message' = [session |-> s, text |-> parts.texts, nudged |-> FALSE,
                               calls |-> << >>]
                /\ fetched' = IF said THEN [fetched EXCEPT ![s].texts = Advance(s, "texts")]
                              ELSE fetched
                /\ UNCHANGED << injectedSessions, chat >>
           ELSE LET calls == IF first THEN ContextCalls(state.config[1], parts) ELSE << >> IN
                /\ message' = [session |-> s, text |-> parts.texts,
                               nudged |-> detectMemoryKeyword(parts), calls |-> calls]
                /\ injectedSessions' = IF first THEN injectedSessions \cup { s }
                                       ELSE injectedSessions
                /\ chat' = IF first THEN [chat EXCEPT ![s] = calls] ELSE chat
                /\ fetched' = [fetched EXCEPT ![s].texts = Advance(s, "texts"),
                                              ![s].rounds = IF first THEN Advance(s, "rounds")
                                                            ELSE @]
    /\ UNCHANGED << configState, env, cfgRet, tool, written >>
    /\ UNCHANGED << clientVars, input, output, nsVars >>

\* The Promise.all of the session resolves: the context is formatted and, when
\* it is not empty, put in front of the parts of the message.
ChatResumes(s) ==
    /\ chat[s] # << >>
    /\ \E lists \in [DOMAIN chat[s] -> { ListOf(r) : r \in ClientResults }] :
         LET context == formatContext(lists)
             injected == "value" \in DOMAIN context /\ context.value # << >>
         IN  fetched' = IF injected
                        THEN [fetched EXCEPT ![s].injections = Advance(s, "injections")]
                        ELSE fetched
    /\ chat' = [chat EXCEPT ![s] = << >>]
    /\ UNCHANGED << configState, env, cfgRet, injectedSessions, message, tool, written >>
    /\ UNCHANGED << clientVars, input, output, nsVars >>

ChatNext ==
    \/ \E s \in Sessions, parts \in Messages : ChatMessage(s, parts)
    \/ \E s \in Sessions : ChatResumes(s)

ChatSpec == PluginInit /\ [][ChatNext]_vars

(***************************************************************************)
(* Vocabulary of the properties.                                           *)
(***************************************************************************)
Done(p) == pc[p] = "done"

\* The result invocation p returned.
Res(p) == result[p][1]

\* The requests of invocation p, as indices into `sent`.
RequestsOf(p) == { i \in DOMAIN sent : sent[i].op = p }

\* The methods invocation p sent, in the order it sent them.
RECURSIVE MethodsFrom(_, _)
MethodsFrom(p, i) ==
    IF i > Len(sent) THEN << >>
    ELSE IF sent[i].op = p THEN << sent[i].method >> \o MethodsFrom(p, i + 1)
    ELSE MethodsFrom(p, i + 1)

Methods(p) == MethodsFrom(p, 1)

Handshakes == { i \in DOMAIN sent : sent[i].method = "initialize" }

SuccessStatus(o) == o.kind = "response" /\ o.status \in 200..299

HttpFailure(o) == o.kind = "response" /\ o.status \notin 200..299

\* The handshake of invocation p came back HTTP-ok, decodable, without a
\* top-level error.
HandshakeOk(p) == SuccessStatus(gotInit[p].fetch) /\ gotInit[p].body.class = "ok"

\* Invocation p went through ensureSession successfully.
SessionEnsured(p) == gotInit[p].fetch = SessionHeld \/ HandshakeOk(p)

IsFailure(r, unreachable) == ~r.success /\ r.isUnreachable = unreachable

(***************************************************************************)
(* Error classification.                                                   *)
(***************************************************************************)
\* What the network did to a request is a connectivity failure with message
\* text as the claim describes it: (a) the HTTP call raised, (b) the status is
\* outside the success range, (c) the decoded response carries a top-level error.
ConnectivityFailureOf(o, r) ==
    /\ o.fetch.kind = "reject" => IsFailure(r, TRUE)
    /\ HttpFailure(o.fetch) =>
           IsFailure(r, TRUE) /\ Contains(r.error, ToString(o.fetch.status))
    /\ o.body.class = "rpcerror" =>
           IsFailure(r, TRUE) /\ r.error = << o.body.msg >>

\* C1: an operation whose handshake or tools/call request ended in an exception
\* of the HTTP call, a non-success HTTP status or a top-level JSON-RPC error
\* returns a failure with isUnreachable = true; the message is the server's
\* error message in the last case and contains the status code in the second.
C1_ConnectivityFailures ==
    \A p \in Ops :
        Done(p) =>
            /\ Len(result[p]) = 1
            /\ ConnectivityFailureOf(gotInit[p], Res(p))
            /\ ConnectivityFailureOf(gotCall[p], Res(p))

\* C1 witness: one operation ended on a non-success status of its handshake,
\* another on a top-level error of its tools/call response.
C1_Witness ==
    \E p, q \in Ops :
        /\ Done(p) /\ HttpFailure(gotInit[p].fetch)
        /\ Done(q) /\ gotCall[q].body.class = "rpcerror"

\* Invocation p got a tool-level error on an otherwise well-formed tools/call
\* response, after a successful handshake (or with the session already held).
ToolLevelError(p) ==
    /\ SessionEnsured(p)
    /\ SuccessStatus(gotCall[p].fetch)
    /\ gotCall[p].body.class = "toolerror"

\* C2: a failure with isUnreachable = false is returned exactly when the
\* handshake succeeded and the tools/call response is HTTP-ok, decodable,
\* without top-level error and with the tool-level isError flag set.
C2_ApplicationFailureIffToolError ==
    \A p \in Ops :
        Done(p) => (IsFailure(Res(p), FALSE) <=> ToolLevelError(p))

\* C2 witness: an operation returned an application failure, another one a
\* connectivity failure of its tools/call.
C2_Witness ==
    \E p, q \in Ops :
        /\ Done(p) /\ ToolLevelError(p) /\ IsFailure(Res(p), FALSE)
        /\ Done(q) /\ gotCall[q].body.class = "noresult" /\ IsFailure(Res(q), TRUE)

(***************************************************************************)
(* Session handshake.                                                      *)
(***************************************************************************)
\* C3: at most one `initialize` request is sent by a client instance over its
\* whole lifetime, also when its first operations start concurrently.
C3_AtMostOneHandshake == Cardinality(Handshakes) <= 1

\* Some handshake completed successfully before request i was sent: in
\* sequential use, the handshake of an earlier invocation.
AfterSuccessfulHandshake(i) == \E q \in Ops : q < sent[i].op /\ HandshakeOk(q)

\* C4: when operations are issued sequentially, no `initialize` request is sent
\* once a handshake has completed successfully (HTTP ok, no top-level error).
C4_NoHandshakeAfterSuccess ==
    ~overlapped => \A i \in Handshakes : ~AfterSuccessfulHandshake(i)

\* C5 as stated: in sequential use the first operation on a fresh client sends
\* exactly `initialize` then `tools/call`, and every later operation sends
\* exactly one `tools/call`.
C5_TwoThenOne ==
    ~overlapped =>
        \A p \in Ops :
            Done(p) =>
                Methods(p) = IF p = 1 THEN << "initialize", "tools/call" >>
                                      ELSE << "tools/call" >>

\* The token the client held when invocation p was made (read off the first
\* request of p, which is sent before the invocation first suspends).
HeldAtInvoke(p) == sent[CHOOSE i \in RequestsOf(p) : \A j \in RequestsOf(p) : i <= j].held

\* C5 as amended: in sequential use an operation invoked while a token is held
\* sends exactly one request, `tools/call`; one invoked while no token is held
\* sends `initialize` first, followed by exactly one `tools/call` if that
\* handshake came back HTTP-ok, decodable and without top-level error, and by
\* nothing otherwise.
C5_RequestsPerOperation ==
    ~overlapped =>
        \A p \in Ops :
            Done(p) =>
                Methods(p) =
                    IF HeldAtInvoke(p) # Null THEN << "tools/call" >>
                    ELSE IF HandshakeOk(p) THEN << "initialize", "tools/call" >>
                    ELSE << "initialize" >>

\* C5 witness: sequential use in which the first operation sent the handshake
\* and its tools/call, and the second only its tools/call.
C5_Witness ==
    /\ ~overlapped
    /\ \A p \in Ops : Done(p)
    /\ Methods(1) = << "initialize", "tools/call" >>
    /\ Methods(2) = << "tools/call" >>

\* The session header request r carries: << >> when it carries none.
CarriedToken(r) ==
    IF SessionHeader \in DOMAIN r.headers THEN << r.headers[SessionHeader] >> ELSE << >>

\* A handshake response that has been decoded returned the token t.
ReturnedByHandshake(t) ==
    \E q \in Ops :
        /\ SuccessStatus(gotInit[q].fetch)
        /\ gotInit[q].body.class \in {"ok", "rpcerror"}
        /\ gotInit[q].fetch.token = t

\* C6: every request sent while a token is held carries the session header
\* with that token, every request sent while none is held carries no session
\* header, and the token carried is the one a handshake returned and the
\* client holds ever since.
C6_SessionHeaderMatchesToken ==
    \A i \in DOMAIN sent :
        IF sent[i].held = Null
        THEN CarriedToken(sent[i]) = << >>
        ELSE /\ CarriedToken(sent[i]) = << sent[i].held.v >>
             /\ sent[i].held = sessionId
             /\ ReturnedByHandshake(sessionId)

\* C6 witness: a request was sent without a token and a later one with the
\* token held, after two handshakes returned different tokens.
C6_Witness ==
    /\ \E i, j \in DOMAIN sent : sent[i].held = Null /\ sent[j].held # Null
    /\ \E t \in Tokens : t # sessionId /\ ReturnedByHandshake(t)

\* C7: once the session token is non-null it never changes and is never reset,
\* whatever responses arrive later.
C7_TokenWrittenOnce == [][sessionId # Null => sessionId' = sessionId]_vars

\* C7 witness: a token is held and a decoded handshake response carried a
\* different one.
C7_Witness ==
    /\ sessionId # Null
    /\ \E t \in Tokens : t # sessionId /\ ReturnedByHandshake(t)

\* C8: no `tools/call` request is sent while the client holds no session token.
C8_ToolCallHoldsToken ==
    \A i \in DOMAIN sent : sent[i].method = "tools/call" => sent[i].held # Null

(***************************************************************************)
(* Request ids.                                                            *)
(***************************************************************************)
\* C9: every request gets an id strictly greater than the id of every request
\* the instance sent before; no id is reused.
C9_IdsStrictlyIncrease ==
    \A i, j \in DOMAIN sent : i < j => sent[i].id < sent[j].id

\* C9 witness: concurrent invocations, one of which timed out and one of which
\* was refused by the server, have sent at least three requests.
C9_Witness ==
    /\ overlapped
    /\ Len(sent) >= 3
    /\ \E p, q \in Ops :
           /\ gotInit[p].fetch.kind = "timeout" \/ gotCall[p].fetch.kind = "timeout"
           /\ HttpFailure(gotCall[q].fetch)

\* The id of the tools/call request of invocation p, when it has sent one.
ToolCallIds(p) == { sent[i].id : i \in { j \in RequestsOf(p) : sent[j].method = "tools/call" } }

\* C10: if operation p is invoked before operation q, the id of p's tools/call
\* request is smaller than the id of q's (invocations are numbered in call
\* order).
C10_IdsInCallOrder ==
    \A p, q \in Ops :
        p < q => \A a \in ToolCallIds(p) : \A b \in ToolCallIds(q) : a < b

(***************************************************************************)
(* Timeouts.                                                               *)
(***************************************************************************)
\* The timer of invocation p fired before fetch produced a response, on its
\* handshake or on its tools/call.
TimedOut(p) == gotInit[p].fetch.kind = "timeout" \/ gotCall[p].fetch.kind = "timeout"

\* C11: an operation whose timer fires before the HTTP call has produced a
\* response, on the handshake or on the tools/call, returns a failure with
\* isUnreachable = true and the message `Request timeout`.
C11_TimeoutIsConnectivityFailure ==
    \A p \in Ops :
        TimedOut(p) =>
            /\ Done(p)
            /\ IsFailure(Res(p), TRUE)
            /\ Res(p).error = << "Request timeout" >>

\* C11 witness: one operation timed out on its handshake, another on its
\* tools/call.
C11_Witness ==
    \E p, q \in Ops :
        /\ Done(p) /\ gotInit[p].fetch.kind = "timeout"
        /\ Done(q) /\ gotCall[q].fetch.kind = "timeout"

\* The Response of a request of p that had timed out arrives in this step.
LateArrival(p) == late[p] = Abandoned /\ late'[p] # Abandoned

\* C12: a response that arrives after its request has timed out is discarded:
\* the step in which it arrives changes neither the results already returned,
\* nor the session token, nor the request-id counter, nor the requests sent,
\* nor the position of any invocation.
C12_LateResponseDiscarded ==
    [][(\E p \in Ops : LateArrival(p)) =>
           /\ result' = result
           /\ sessionId' = sessionId
           /\ requestId' = requestId
           /\ sent' = sent
           /\ pc' = pc]_vars

\* C12 witness: the response of a timed-out handshake has arrived with a
\* session header while no token was held, and none is held.
C12_Witness ==
    \E p \in Ops :
        /\ gotInit[p].fetch = FetchTimeout
        /\ late[p].kind = "response" /\ late[p].status = 200 /\ Truthy(late[p].token)
        /\ Done(p) /\ IsFailure(Res(p), TRUE)
        /\ sessionId = Null

(***************************************************************************)
(* Results, retries and failed handshakes.                                 *)
(***************************************************************************)
\* An Operation Result: success with data, or failure with a message and the
\* connectivity flag, never both.
WellFormedResult(r) ==
    \/ DOMAIN r = {"success", "data"} /\ r.success = TRUE
    \/ /\ DOMAIN r = {"success", "error", "isUnreachable"}
       /\ r.success = FALSE
       /\ r.isUnreachable \in BOOLEAN
       /\ Len(r.error) >= 1

\* The body of a request of p could not be decoded: no `data: ` line, or a
\* data line that is not JSON.
Undecodable(p) ==
    \/ gotInit[p].body.class \in {"nodata", "badjson"}
    \/ gotCall[p].body.class \in {"nodata", "badjson"}

\* C13: no invocation throws or rejects: an invocation in flight has yielded
\* nothing, a completed one has yielded exactly one well-formed Operation
\* Result, and an undecodable response body yields a failure with
\* isUnreachable = true.
C13_ExactlyOneWellFormedResult ==
    \A p \in Ops :
        /\ ~Done(p) => Len(result[p]) = 0
        /\ Done(p) => Len(result[p]) = 1 /\ WellFormedResult(Res(p))
        /\ Undecodable(p) => Done(p) /\ IsFailure(Res(p), TRUE)

\* C13 witness: one invocation got a body without a data line, another a data
\* line that is not JSON, and both returned.
C13_Witness ==
    \E p, q \in Ops :
        /\ Done(p) /\ gotInit[p].body.class = "nodata"
        /\ Done(q) /\ gotCall[q].body.class = "badjson"

\* The requests of invocation p with the given method.
RequestsWith(p, method) == { i \in RequestsOf(p) : sent[i].method = method }

\* C14: the client never retries: an invocation sends at most one `initialize`
\* and at most one `tools/call`, whatever the outcome.
C14_NoRetries ==
    \A p \in Ops :
        /\ Cardinality(RequestsWith(p, "initialize")) <= 1
        /\ Cardinality(RequestsWith(p, "tools/call")) <= 1

\* C14 witness: two invocations have failed, one on its handshake and one on
\* its tools/call, and each request was sent once.
C14_Witness ==
    \E p, q \in Ops :
        /\ Done(p) /\ ~Res(p).success /\ HttpFailure(gotInit[p].fetch)
        /\ Cardinality(RequestsOf(p)) = 1
        /\ Done(q) /\ ~Res(q).success /\ gotCall[q].fetch.kind = "reject"
        /\ Cardinality(RequestsWith(q, "tools/call")) = 1

\* The handshake of invocation p failed: network exception, timeout,
\* non-success HTTP status, undecodable body, or a top-level JSON-RPC error.
HandshakeFailed(p) ==
    \/ gotInit[p].fetch.kind \in {"reject", "timeout"}
    \/ HttpFailure(gotInit[p].fetch)
    \/ gotInit[p].body.class \in {"reject", "nodata", "badjson", "rpcerror"}

\* C15: an invocation whose handshake failed returns a failure with
\* isUnreachable = true and sends no `tools/call`.
C15_FailedHandshakeStopsOperation ==
    \A p \in Ops :
        HandshakeFailed(p) =>
            /\ Done(p)
            /\ IsFailure(Res(p), TRUE)
            /\ RequestsWith(p, "tools/call") = {}

\* C15 witness: one handshake was answered with a top-level JSON-RPC error and
\* another with a non-success HTTP status.
C15_Witness ==
    \E p, q \in Ops :
        /\ Done(p) /\ gotInit[p].body.class = "rpcerror"
        /\ Done(q) /\ HttpFailure(gotInit[q].fetch)

(***************************************************************************)
(* callTool on a decoded response.                                         *)
(***************************************************************************)
\* callTool has been applied to a decoded response whose result reports a tool
\* error (errored = TRUE) or none.
CallToolApplied(errored) ==
    /\ input.fn = "callTool" /\ output # << >>
    /\ Truthy(Get(input.result, "isError")) = errored

\* A field that carries a message: a non-empty string (an absent, null or
\* empty field carries none).
Message(v) == v.type = "string" /\ v.v # ""

StructuredError(r) == Get(Get(r, "structuredContent"), "error")

FirstText(r) == Get(First(Get(r, "content")), "text")

\* The `error` field of the first content block's text parsed as JSON;
\* undefined when the text is not JSON.
ParsedError(r) ==
    LET parsed == JSONParse(FirstText(r).v)
    IN  IF parsed.threw THEN Undefined ELSE Get(parsed.value, "error")

\* C16: the message of a tool-level error is the `error` field of
\* structuredContent if present; else the `error` field of the first content
\* block's text parsed as JSON; else the raw text of the first content block.
C16_ToolErrorMessagePrecedence ==
    CallToolApplied(TRUE) =>
        LET r == input.result
            msg == output[1].error
        IN  /\ ~output[1].success
            /\ Message(StructuredError(r)) => msg = << StructuredError(r).v >>
            /\ ~Message(StructuredError(r)) /\ Message(FirstText(r)) =>
                   IF Message(ParsedError(r))
                   THEN msg = << ParsedError(r).v >>
                   ELSE msg = << FirstText(r).v >>

\* C16 witness: a tool error with an error field in structuredContent and a
\* different one inside the text of its first content block was classified.
C16_Witness ==
    /\ CallToolApplied(TRUE)
    /\ Message(StructuredError(input.result))
    /\ Message(FirstText(input.result))
    /\ Message(ParsedError(input.result))
    /\ ParsedError(input.result) # StructuredError(input.result)
    /\ output[1].error = << ToolErrorText >>

\* structuredContent is an object whose only key is `result`.
SingleResultKey(sc) == sc.type = "object" /\ DOMAIN sc.fields = {"result"}

\* C17: on a well-formed response with no tool-level error callTool returns
\* success; its data is the value under `result` exactly when structuredContent
\* is an object whose single key is `result`, and structuredContent itself in
\* every other case.
C17_UnwrapsOnlySingleResultKey ==
    CallToolApplied(FALSE) =>
        LET sc == Get(input.result, "structuredContent")
        IN  /\ output[1].success
            /\ output[1].data = IF SingleResultKey(sc) THEN sc.fields["result"] ELSE sc

(***************************************************************************)
(* Decoding a response body.                                               *)
(***************************************************************************)
\* The data lines of a body, as indices.
DataLines(lines) == { i \in DOMAIN lines : lines[i].prefix = "data: " }

\* C18: the decoded response is the JSON of the first line of the body that
\* begins with the data prefix, whatever precedes and follows that line.
C18_FirstDataLineOnly ==
    input.fn = "parseSSEResponse" /\ output # << >> /\ DataLines(input.lines) # {} =>
        \E i \in DataLines(input.lines) :
            /\ \A j \in DataLines(input.lines) : i <= j
            /\ output[1].threw = JSONParse(input.lines[i].rest).threw
            /\ ~output[1].threw => output[1].value = JSONParse(input.lines[i].rest).value

\* C18 witness: a body with a blank line, then a data line, then a second data
\* line carrying another message was decoded to the first message.
C18_Witness ==
    /\ input.fn = "parseSSEResponse" /\ output # << >>
    /\ input.lines = << Line("", ""), Line("data: ", JsonToolOk), Line("data: ", JsonRpcError) >>
    /\ ~output[1].threw
    /\ output[1].value = JSONParse(JsonToolOk).value

(***************************************************************************)
(* The facade.                                                             *)
(***************************************************************************)
\* The server tool each facade method stands for.
ToolOf ==
    [getStatus |-> "get_status", addMemory |-> "add_memory",
     searchNodes |-> "search_nodes", searchFacts |-> "search_memory_facts",
     getEpisodes |-> "get_episodes", deleteEpisode |-> "delete_episode",
     clearGraph |-> "clear_graph"]

\* The argument name of each parameter.
SnakeOf ==
    [name |-> "name", episodeBody |-> "episode_body", groupId |-> "group_id",
     source |-> "source", sourceDescription |-> "source_description",
     uuid |-> "uuid", query |-> "query", groupIds |-> "group_ids",
     maxNodes |-> "max_nodes", entityTypes |-> "entity_types",
     maxFacts |-> "max_facts", centerNodeUuid |-> "center_node_uuid",
     maxEpisodes |-> "max_episodes"]

FieldsOf(v) == IF v.type = "object" THEN v.fields ELSE << >>

\* The parameters an invocation was given, by their camel-case names.
Given ==
    CASE input.method \in {"searchNodes", "searchFacts"} ->
             ("query" :> input.first) @@ FieldsOf(input.second)
      [] input.method = "deleteEpisode" -> ("uuid" :> input.first)
      [] OTHER -> FieldsOf(input.first)

\* A parameter given with a value: not the empty string, not zero.
Valued(v) == ~(v.type = "string" /\ v.v = "") /\ ~(v.type = "number" /\ v.v = 0)

TokenOf(this) == sessionIdOf[Slot(this)]

CounterOf(this) == requestIdOf[Slot(this)]

\* Invocation p takes a step: it is invoked, one of its requests is answered,
\* fails or times out, or the response of a request it abandoned arrives.
Steps(p) == pc'[p] # pc[p] \/ late'[p] # late[p]

\* C19: a step of an operation on one instance (its invocation, handshake,
\* failure, timeout or late response) leaves the session token and the
\* request-id counter of every other instance unchanged.
C19_InstancesShareNoState ==
    [][\A p \in Ops :
           Steps(p) =>
               \A other \in Instances \ {on'[p]} :
                   /\ TokenOf(other)' = TokenOf(other)
                   /\ CounterOf(other)' = CounterOf(other)]_vars

\* C19 witness: both instances were used; each holds the token of its own
\* handshake and has counted its own two requests.
C19_Witness ==
    /\ \E p, q \in Ops : Done(p) /\ Done(q) /\ on[p] = "A" /\ on[q] = "B"
    /\ TokenOf("A") = Str("sess-A") /\ TokenOf("B") = Str("sess-B")
    /\ CounterOf("A") = 2 /\ CounterOf("B") = 2

\* C21: for every facade method and every parameter, the argument key is in
\* the argument map if and only if the caller supplied the parameter (a
\* supplied 0 or empty string included), and no argument is sent as null.
C21_ArgumentPresentIffSupplied ==
    input.fn = "facade" /\ output # << >> =>
        LET call == output[1] IN
        /\ \A c \in DOMAIN SnakeOf :
               SnakeOf[c] \in DOMAIN call.args <=> c \in DOMAIN Given
        /\ \A a \in DOMAIN call.args : call.args[a] # Null

(***************************************************************************)
(* Normalizing a remote URL.                                               *)
(***************************************************************************)
\* normalizeGitRemoteUrl has been applied to an input of the given kind.
Normalized(kind) ==
    input.fn = "normalizeGitRemoteUrl" /\ input.kind = kind /\ output # << >>

\* The plain form every syntax of a repository is compared with.
PlainHttps == [scheme |-> "https", user |-> FALSE, dotGit |-> FALSE, upper |-> FALSE]

\* C22: every supported syntax of one repository (SSH shorthand, ssh://,
\* http://, https://, with or without a user, with or without .git, in any
\* letter case) is normalized to the string its plain https URL is
\* normalized to.
C22_SyntaxesNormalizeAlike ==
    Normalized("repo") =>
        output[1] = normalizeGitRemoteUrl(Render(input.repo, PlainHttps))

\* What follows the colon is a numeric port: digits, then a slash or the end.
PortLike(rest) ==
    \E j \in 1..Len(rest) :
        /\ \A k \in 1..j : rest[k] \in Digits
        /\ j = Len(rest) \/ rest[j + 1] = "/"

\* C30: an input host:digits/path or host:digits keeps its colon; every
\* other host:path input has its first colon replaced by a slash.
C30_ColonKeptOnlyBeforePort ==
    Normalized("colon") =>
        output[1] = StripTrailingSlashes(
                        IF PortLike(input.rest)
                        THEN input.host \o << ":" >> \o input.rest
                        ELSE input.host \o << "/" >> \o input.rest)

(***************************************************************************)
(* Properties of the namespace resolver.                                   *)
(***************************************************************************)
\* Directories whose fingerprint has been computed, with what git answered
\* at that moment.
ResolvedDirs == { d \in Dirs : resolved[d] # << >> }

GitAtResolution(d) == resolved[d][1].git

IdentityOf(d) == resolved[d][1].identity

HasRemote(g) == getGitRemoteUrl(g.remote) # << >> /\ getGitRemoteUrl(g.remote)[1] # << >>

NormalizedRemote(g) == normalizeGitRemoteUrl(getGitRemoteUrl(g.remote)[1])

RelativePath(g) == getRelativePathFromGitRoot(g.prefix)

\* Two directories of one repository at different relative paths.
SameRepositoryOtherPath(d, e) ==
    /\ d \in ResolvedDirs /\ e \in ResolvedDirs
    /\ HasRemote(GitAtResolution(d)) /\ HasRemote(GitAtResolution(e))
    /\ NormalizedRemote(GitAtResolution(d)) = NormalizedRemote(GitAtResolution(e))
    /\ RelativePath(GitAtResolution(d)) # RelativePath(GitAtResolution(e))

DigestOf(identity) == (CHOOSE x \in sha : x.identity = identity).digest

C24_IdentityDistinctPerProject ==
    \A d, e \in ResolvedDirs :
        ( /\ HasRemote(GitAtResolution(d)) /\ HasRemote(GitAtResolution(e))
          /\ << NormalizedRemote(GitAtResolution(d)), RelativePath(GitAtResolution(d)) >>
               # << NormalizedRemote(GitAtResolution(e)), RelativePath(GitAtResolution(e)) >> )
        => IdentityOf(d) # IdentityOf(e)

\* The group id, an underscore and the leading eight characters of a digest.
HexDigits == Digits \cup { "a", "b", "c", "d", "e", "f" }

\* C25: getProjectNamespace returns the base group id, an underscore and the
\* first 8 hexadecimal characters of the hash of the canonical identity; with a
\* remote and a non-empty relative path the identity is the normalized origin
\* URL, a slash and the relative path.
C25_NamespaceOfRemoteAndPath ==
    /\ \A d \in ResolvedDirs :
          LET g == GitAtResolution(d) IN
          (HasRemote(g) /\ RelativePath(g) # << >>) =>
              IdentityOf(d) = NormalizedRemote(g) \o << "/" >> \o RelativePath(g)
    /\ (ret # NoReturn /\ ~ret.cached) =>
          LET hash == SubSeq(DigestOf(IdentityOf(ret.dir)), 1, 8) IN
          /\ ret.namespace = << "t", "e", "a", "m", "_" >> \o hash
          /\ Len(hash) = 8
          /\ \A i \in 1..8 : hash[i] \in HexDigits
    /\ \A d \in ResolvedDirs :
          ( /\ GitAtResolution(d).remote = Stdout(<< "g", "i", "t", "@", "h", "o", "s", "t", ":", "o", "r", "g", "/", "r", "e", "p", "o", ".", "g", "i", "t", "\n" >>)
            /\ GitAtResolution(d).prefix = Stdout(<< "p", "k", "g", "/", "a", "p", "p", "/", "\n" >>) )
          => IdentityOf(d) = << "h", "o", "s", "t", "/", "o", "r", "g", "/", "r", "e", "p", "o", "/", "p", "k", "g", "/", "a", "p", "p" >>

\* The spec's example has been resolved: remote git@host:org/repo.git, path
\* pkg/app, group id team.
C25_Witness ==
    /\ ret # NoReturn /\ ~ret.cached
    /\ ret.git.remote = Stdout(<< "g", "i", "t", "@", "h", "o", "s", "t", ":", "o", "r", "g", "/", "r", "e", "p", "o", ".", "g", "i", "t", "\n" >>)
    /\ ret.git.prefix = Stdout(<< "p", "k", "g", "/", "a", "p", "p", "/", "\n" >>)
    /\ IdentityOf(ret.dir) = << "h", "o", "s", "t", "/", "o", "r", "g", "/", "r", "e", "p", "o", "/", "p", "k", "g", "/", "a", "p", "p" >>
    /\ ret.namespace = << "t", "e", "a", "m", "_", "1", "a", "2", "b", "3", "c", "4", "d" >>

\* C26: getProjectNamespace returns a namespace for every directory whatever
\* the version-control lookups do: when the remote lookup fails or yields
\* nothing the identity is the raw directory path, and when only the
\* relative-path lookup fails it is the normalized remote alone.
C26_LookupFailuresFallBack ==
    /\ \A d \in Dirs :
          \/ CachedHash(hashCache, d) # << >>
          \/ DigestChoices(HashInput(d, gitOf[d])) # {}
    /\ \A d \in ResolvedDirs :
          LET g == GitAtResolution(d) IN
          /\ (g.remote.threw \/ trim(g.remote.stdout) = << >>) => IdentityOf(d) = d
          /\ (~g.remote.threw /\ trim(g.remote.stdout) # << >> /\ g.prefix.threw)
                => IdentityOf(d) = normalizeGitRemoteUrl(trim(g.remote.stdout))
    /\ ret # NoReturn =>
          /\ Len(ret.namespace) = Len(GroupId) + 1 + 8
          /\ SubSeq(ret.namespace, 1, Len(GroupId) + 1) = << "t", "e", "a", "m", "_" >>

\* One directory was resolved where git failed altogether, the other where
\* only the relative-path lookup failed.
C26_Witness ==
    \E d, e \in ResolvedDirs :
        /\ GitAtResolution(d) = NotARepository
        /\ IdentityOf(d) = d
        /\ GitAtResolution(e) = [remote |-> Stdout(<< "g", "i", "t", "@", "h", "o", "s", "t", ":", "o", "r", "g", "/", "r", "e", "p", "o", ".", "g", "i", "t", "\n" >>), prefix |-> Threw]
        /\ IdentityOf(e) = << "h", "o", "s", "t", "/", "o", "r", "g", "/", "r", "e", "p", "o" >>
        /\ ret # NoReturn

\* C27: for each directory path the version-control lookups run at most once
\* per process.
C27_LookupAtMostOncePerDir ==
    \A d \in Dirs : lookups[d] <= 1

\* A call was answered from the cache although git answers differently now.
C27_Witness ==
    /\ ret # NoReturn /\ ret.cached
    /\ lookups[ret.dir] = 1
    /\ ret.git # GitAtResolution(ret.dir)

\* C28: every call of getProjectNamespace for a directory returns the string
\* its first call returned, whatever happened in between.
C28_SameAsFirstCall ==
    ret # NoReturn =>
        /\ firstNs[ret.dir] # << >>
        /\ ret.namespace = firstNs[ret.dir][1]

\* A later call returned the first call's string although the directory's
\* identity would be another one now.
C28_Witness ==
    /\ ret # NoReturn /\ ret.cached
    /\ ret.namespace = firstNs[ret.dir][1]
    /\ HashInput(ret.dir, ret.git) # IdentityOf(ret.dir)

\* The fingerprint inside a returned namespace.
ReturnedFingerprint == SubSeq(ret.namespace, Len(GroupId) + 2, Len(ret.namespace))

\* C29 as stated: the fingerprint returned for a directory is the one a fresh
\* computation from the directory's current remote URL and relative path
\* produces.
C29_ReturnedFingerprintIsFresh ==
    ret # NoReturn =>
        \A digest \in DigestChoices(HashInput(ret.dir, ret.git)) :
            ReturnedFingerprint = SubSeq(digest, 1, 8)

\* C29, amended: the fingerprint returned for a directory is the one computed
\* from the remote URL and relative path the directory had when it was first
\* resolved in this process, and no directory's cache entry holds anything
\* else.
C29_ReturnedFingerprintIsOfFirstResolution ==
    /\ ret # NoReturn =>
          /\ ret.dir \in ResolvedDirs
          /\ IdentityOf(ret.dir) = HashInput(ret.dir, GitAtResolution(ret.dir))
          /\ ReturnedFingerprint = SubSeq(DigestOf(IdentityOf(ret.dir)), 1, 8)
    /\ \A d \in Dirs :
          IF d \in ResolvedDirs
          THEN hashCache[d] = << SubSeq(DigestOf(IdentityOf(d)), 1, 8) >>
          ELSE hashCache[d] = << >>

\* A directory resolved outside any repository is asked again after it got
\* an origin, and the cached fingerprint of its path is returned.
C29_Witness ==
    /\ ret # NoReturn /\ ret.cached
    /\ GitAtResolution(ret.dir) = NotARepository
    /\ ret.git.remote = Stdout(<< "g", "i", "t", "@", "h", "o", "s", "t", ":", "o", "r", "g", "/", "r", "e", "p", "o", ".", "g", "i", "t", "\n" >>)
    /\ IdentityOf(ret.dir) = ret.dir

\* C39: normalizeGitRemoteUrl gives u, u.git, u/ and u.git/ the same canonical
\* string, which ends neither with a slash nor with .git and has no upper-case
\* letter.
C39_SuffixesNormalizeAlike ==
    Normalized("suffix") =>
        /\ output[1] = normalizeGitRemoteUrl(input.base)
        /\ output[1][Len(output[1])] # "/"
        /\ ~EndsWithIgnoringCase(output[1], << ".", "g", "i", "t" >>)
        /\ \A i \in DOMAIN output[1] : output[1][i] \notin DOMAIN UpperToLower

(***************************************************************************)
(* Responses without result and error; failed handshakes; termination.     *)
(***************************************************************************)
\* The tools/call of invocation p was answered HTTP-ok with a decodable body
\* that has neither a top-level error nor a result.
NeitherErrorNorResult(p) ==
    /\ SuccessStatus(gotCall[p].fetch)
    /\ gotCall[p].body.class = "noresult"

\* C37: a tools/call response that is HTTP-ok and parseable but carries neither
\* a top-level error nor a result yields a failure with isUnreachable = true and
\* the message `No result in response`, never a success.
C37_MissingResultIsConnectivityFailure ==
    \A p \in Ops :
        (Done(p) /\ NeitherErrorNorResult(p)) =>
            /\ Len(result[p]) = 1
            /\ ~Res(p).success
            /\ Res(p) = Failure(<< "No result in response" >>, TRUE)

\* An operation whose handshake succeeded got such a response.
C37_Witness ==
    \E p \in Ops :
        /\ Done(p) /\ NeitherErrorNorResult(p)
        /\ HandshakeOk(p)
        /\ Res(p).isUnreachable

\* C36: a failed handshake stores no token, so that the next operation sends
\* the handshake again, and an operation whose own handshake and tools/call
\* succeed returns success: as long as no handshake has succeeded no token is
\* held and no operation has skipped the handshake.
C36_FailedHandshakeStoresNothing ==
    /\ (\A p \in Ops : ~HandshakeOk(p)) =>
           /\ sessionId = Null
           /\ \A q \in Ops : gotInit[q].fetch # SessionHeld
    /\ \A q \in Ops :
           (Done(q) /\ HandshakeOk(q) /\ SuccessStatus(gotCall[q].fetch)
                    /\ gotCall[q].body.class = "ok") => Res(q).success

\* C35: with a timer that always eventually fires, every facade invocation
\* eventually returns an Operation Result, whatever the server does.
C35_EveryInvocationReturns ==
    \A p \in Ops : (pc[p] # "idle") ~> Done(p)

(***************************************************************************)
(* The configuration state.                                                *)
(***************************************************************************)
\* C34: once initConfig has returned a state, every later initConfig returns
\* that state whatever its projectDir and whatever files and environment
\* variables hold, until resetConfig; after resetConfig (and at the start)
\* initConfig computes the state from its projectDir, the files and the
\* environment; getConfig returns the config of a ready state and throws
\* otherwise.
C34_ConfigStateMemoized ==
    [][ /\ (cfgRet' # cfgRet /\ cfgRet'.fn = "initConfig") =>
              /\ cfgRet'.state = IF configState # << >> THEN configState
                                 ELSE << LoadConfig(cfgRet'.dir, env) >>
              /\ configState' = cfgRet'.state
        /\ (cfgRet' # cfgRet /\ cfgRet'.fn = "getConfig") =>
              /\ configState' = configState
              /\ IF configState # << >> /\ configState[1].status = "ready"
                 THEN ~cfgRet'.threw /\ cfgRet'.config = configState[1].config
                                     /\ cfgRet'.config # << >>
                 ELSE cfgRet'.threw /\ cfgRet'.config = << >>
        /\ (cfgRet' # cfgRet /\ cfgRet'.fn = "resetConfig") => configState' = << >>
        /\ cfgRet' = cfgRet => configState' = configState ]_vars

\* initConfig returned the memoized state although its projectDir, the files
\* and the environment would give another one now.
C34_Witness ==
    /\ cfgRet.fn = "initConfig"
    /\ cfgRet.memoized
    /\ cfgRet.state = configState
    /\ cfgRet.state # << LoadConfig(cfgRet.dir, env) >>

(***************************************************************************)
(* The graphiti tool                                                       *)
(***************************************************************************)
Executed == tool.phase # "none"

ToolReturned == tool.phase = "returned"

PluginUnconfigured == configState[1].status # "ready"

HelpAsked == tool.args.mode \in { Undefined, Str("help") }

ParameterMissing ==
    \/ tool.args.mode = Str("add") /\ tool.args.content = Undefined
    \/ tool.args.mode = Str("search") /\ tool.args.query = Undefined
    \/ tool.args.mode = Str("forget") /\ tool.args.memoryId = Undefined

FullyPrivateAdd ==
    /\ tool.args.mode = Str("add")
    /\ tool.args.content # Undefined
    /\ tool.args.content.private = "all"

\* C33: an execution of the tool by an unconfigured plugin, in help mode
\* (asked for or by default), without its required parameter, or adding fully
\* private content makes no call of the client, and, help mode of a configured
\* plugin apart, returns success = false.
C33_NoRequestWhenRefused ==
    Executed /\ (PluginUnconfigured \/ HelpAsked \/ ParameterMissing \/ FullyPrivateAdd)
    => /\ ToolReturned
       /\ tool.calls = << >>
       /\ tool.results = << >>
       /\ (PluginUnconfigured \/ ~HelpAsked) => ~tool.reply[1].success

C33_Witness ==
    /\ ToolReturned
    /\ ~PluginUnconfigured
    /\ FullyPrivateAdd
    /\ tool.calls = << >>
    /\ ~tool.reply[1].success

PluginConfig == configState[1].config[1]

ScopeGroupId(scope) ==
    IF scope = Str("user") THEN PluginConfig.profileGroupId
    ELSE PluginConfig.groupId \o << "_" >> \o getDirectoryHash(Directory)

\* C31: in add and list modes the group id of the client call is the
\* configured profileGroupId as it is for scope user and the project namespace
\* of the directory for scope project or no scope, and no memory added with
\* one scope was written under the group id of the other scope.
C31_RoutedByScope ==
    /\ Executed /\ tool.calls # << >> /\ tool.args.mode \in { Str("add"), Str("list") }
       => tool.calls[1].groupIds = << ScopeGroupId(tool.args.scope) >>
    /\ \A w \in written :
         /\ w.scope = "user" => w.groupId # ScopeGroupId(Str("project"))
         /\ w.scope = "project" => w.groupId # ScopeGroupId(Str("user"))

C31_Witness ==
    /\ \E w \in written : w.scope = "user" /\ w.groupId = PluginConfig.profileGroupId
    /\ \E w \in written : w.scope = "project" /\ w.groupId # PluginConfig.profileGroupId
    /\ tool.args.mode = Str("list")
    /\ tool.args.scope = Str("user")
    /\ tool.calls # << >>

ListOrProfile == tool.args.mode \in { Str("list"), Str("profile") }

\* C38: in list and profile modes a failure of the client with isUnreachable
\* is returned as success = true with an empty list and the warning "Graphiti
\* service temporarily unavailable", and a failure without isUnreachable as
\* success = false with the client's error message.
C38_UnreachableDegradesFailureReported ==
    ToolReturned /\ ListOrProfile /\ tool.results # << >> /\ ~tool.results[1].success
    => IF tool.results[1].isUnreachable
       THEN /\ tool.reply[1].success
            /\ tool.reply[1].payload[2] = << >>
            /\ tool.reply[1].warning = << "Graphiti service temporarily unavailable" >>
            /\ tool.reply[1].error = << >>
       ELSE /\ ~tool.reply[1].success
            /\ tool.reply[1].error = << tool.results[1].error >>
            /\ \E i \in DOMAIN tool.results[1].error : tool.results[1].error[i] # ""

C38_Witness ==
    /\ ToolReturned
    /\ tool.args.mode = Str("list")
    /\ tool.results # << >>
    /\ ~tool.results[1].success
    /\ tool.results[1].isUnreachable
    /\ tool.reply[1].success
    /\ tool.reply[1].warning # << >>

(***************************************************************************)
(* The chat.message hook                                                   *)
(***************************************************************************)
\* C32: per session at most one round of requests to the memory service is
\* made and the context is injected at most once: once a non-empty text
\* message of the session has been handled, no message of the session starts
\* requests, whether the first round failed, succeeded or is still in flight.
C32_FetchedOncePerSession ==
    [][\A s \in Sessions :
         /\ fetched'[s].rounds <= 1
         /\ fetched'[s].injections <= 1
         /\ fetched[s].texts >= 1 => fetched'[s].rounds = fetched[s].rounds]_vars

C32_Witness ==
    /\ fetched["ses_1"].texts = 2
    /\ fetched["ses_1"].rounds = 1
    /\ fetched["ses_1"].injections = 0
    /\ chat["ses_1"] # << >>
    /\ message.session = "ses_1"
    /\ message.calls = << >>
    /\ message.text # << >>
    /\ fetched["ses_2"].injections = 1

====
